---- MODULE Spec2Model ----
(***************************************************************************)
(* AidAuditor: the custody ledger and milestone-release engine of          *)
(* "Smart Contract/AidAuditor.sol", as a state machine.                    *)
(*                                                                         *)
(* One action is one externally submitted transaction.  A transaction     *)
(* either commits all of its storage writes or reverts to the storage it   *)
(* started from.  The contract's functions are operators from a storage    *)
(* record (the "world" w) to a result; an external call with value         *)
(* (addr.call{value: v}("")) hands control to the recipient, who accepts,  *)
(* rejects, or calls back into the contract before accepting.              *)
(***************************************************************************)
EXTENDS Integers, Sequences, FiniteSets, TLC

(***************************** bounds and inputs ***************************)

\* log: an asset is scanned while its scansCount is below this.
MaxScans == 3
\* block.timestamp is observed up to this many seconds past a lock period.
MaxSlack == 1
\* block.timestamp of the deployment
GenesisTime == 1

ZeroAddr == "0x0"
Addrs == {"admin", "auditor", "scanner", "ngo", "donor"}
\* bytes32(0) is a possible argument and never a valid asset.
ZeroID == 0

\* The wallet session: the accounts the browser wallet can select, null
\* for "no account", and how many role queries and connection requests
\* can be awaiting their answer at once.
Null == "null"
WalletAccounts == {"admin", "auditor", "donor"}
MaxQueries == 2
MaxConnects == 1
\* The asset identifiers storage is modelled for, and those Spec's
\* transactions name.
AssetIDs == {1, 2}
SpecIDs == {1}
GeoTags == {"geoA", "geoB"}
\* msg.value of initAsset: 0 is rejected, 1 rounds both milestones to 0,
\* 3 rounds 40% and 60% down, 5 splits exactly.
Values == {0, 1, 3, 5}
\* _amount of manualReleaseFunds
Amounts == {0, 1, 2}
\* bytes32 photo hash: 0 is bytes32(0), 1 stands for any other hash.
PhotoHashes == {0, 1}
\* The reports scanners submit (the properties of a call's outcome range over
\* every geo tag, stage and hash; these drive the ledger from state to state):
\* a move to Transport without a photo, the Hub with one, the Beneficiary
\* with and without one, LocalTransport, and a return to the Warehouse.
ScanInputs ==
    {[geo |-> "geoB", stage |-> 1, photo |-> 0],
     [geo |-> "geoA", stage |-> 2, photo |-> 1],
     [geo |-> "geoB", stage |-> 3, photo |-> 1],
     [geo |-> "geoB", stage |-> 4, photo |-> 1],
     [geo |-> "geoA", stage |-> 4, photo |-> 0],
     [geo |-> "geoA", stage |-> 0, photo |-> 1]}
\* _newMin of updateMinScans
MinScanInputs == {0, 3}

(******************************** constants ********************************)

Warehouse == 0
Transport == 1
Hub == 2
LocalTransport == 3
Beneficiary == 4
Stages == Warehouse..Beneficiary

\* 30 days, in seconds
REFUND_LOCK_PERIOD == 2592000
\* minScansForFirstPayout's initializer
DefaultMinScans == 2
\* ReentrancyGuard's _status values
NOT_ENTERED == 1
ENTERED == 2

Roles == {"DEFAULT_ADMIN_ROLE", "ADMIN_ROLE", "AUDITOR_ROLE", "SCANNER_ROLE", "NGO_ROLE"}

\* getRoleAdmin with ADMIN_ROLE administering itself.
RoleAdminFlat(role) ==
    IF role \in {"ADMIN_ROLE", "AUDITOR_ROLE", "SCANNER_ROLE", "NGO_ROLE"}
    THEN "ADMIN_ROLE"
    ELSE "DEFAULT_ADMIN_ROLE"

\* AccessControl.getRoleAdmin after the constructor's _setRoleAdmin calls;
\* a role with no admin set is administered by DEFAULT_ADMIN_ROLE.
RoleAdmin(role) ==
    IF role \in {"AUDITOR_ROLE", "SCANNER_ROLE", "NGO_ROLE"} THEN "ADMIN_ROLE"
    ELSE "DEFAULT_ADMIN_ROLE"

(********************************* state ***********************************)

VARIABLES
    roles,                   \* AccessControl: role -> set of members
    minScansForFirstPayout,
    assets,                  \* bytes32 -> Asset
    assetHistory,            \* bytes32 -> ScanLog[]
    assetMilestones,         \* bytes32 -> Milestone[]
    donorTotalContributions,
    ngoTotalReceived,
    donorAssets,
    totalAssetsTracked,
    totalFundsAllocated,
    totalFundsReleased,
    balance,                 \* address(this).balance
    status,                  \* ReentrancyGuard._status
    now,                     \* block.timestamp
    sessionAccount,          \* Web3Provider's account: string | null
    sessionProvider,         \* whether its provider is set (not null)
    sessionContract,         \* whether its contract is set (not null)
    isAdmin,
    isAuditor,
    isScanner,
    isNGO,
    roleQueries,             \* checkUserRole calls awaiting their answer
    connecting               \* connectWallet calls awaiting the wallet

storage == <<roles, minScansForFirstPayout, assets, assetHistory, assetMilestones,
             donorTotalContributions, ngoTotalReceived, donorAssets,
             totalAssetsTracked, totalFundsAllocated, totalFundsReleased,
             balance, status>>

\* The state of the front end's wallet session context.
session == <<sessionAccount, sessionProvider, sessionContract, isAdmin,
             isAuditor, isScanner, isNGO, roleQueries, connecting>>

vars == <<storage, now, session>>

IDs == {ZeroID} \cup AssetIDs

\* The zero-initialised struct a mapping returns for an unused key.
EmptyAsset ==
    [allocatedFunds |-> 0, releasedFunds |-> 0, scansCount |-> 0,
     donorTimestamp |-> 0, assetDescription |-> "", currentGeoTag |-> "",
     currentStage |-> Warehouse, isFlagged |-> FALSE, isRefunded |-> FALSE,
     donor |-> ZeroAddr, assignedNGO |-> ZeroAddr]

\* The contract's storage and the block's timestamp, as one value.
World ==
    [roles |-> roles, minScansForFirstPayout |-> minScansForFirstPayout,
     assets |-> assets, assetHistory |-> assetHistory,
     assetMilestones |-> assetMilestones,
     donorTotalContributions |-> donorTotalContributions,
     ngoTotalReceived |-> ngoTotalReceived, donorAssets |-> donorAssets,
     totalAssetsTracked |-> totalAssetsTracked,
     totalFundsAllocated |-> totalFundsAllocated,
     totalFundsReleased |-> totalFundsReleased,
     balance |-> balance, status |-> status, now |-> now]

(***************************** call results ********************************)

\* A call that returned: the storage it leaves, the value transfers it made
\* and the events it emitted, in order.
Ok(w, transfers, events, nested) ==
    [ok |-> TRUE, err |-> "", w |-> w, transfers |-> transfers,
     events |-> events, nested |-> nested]

\* A call that reverted: the storage it was entered with, and nothing else.
Revert(w, err) ==
    [ok |-> FALSE, err |-> err, w |-> w, transfers |-> <<>>,
     events |-> <<>>, nested |-> <<>>]

\* hasRole with ADMIN_ROLE standing in for every role.
HasRoleOrAdmin(w, role, account) ==
    account \in w.roles[role] \/ account \in w.roles["ADMIN_ROLE"]

\* AccessControl.hasRole
HasRole(w, role, account) == account \in w.roles[role]

\* modifier assetExists
AssetExists(w, id) == w.assets[id].donor # ZeroAddr

(************************* recipients' behaviour ***************************)

\* The recipient of a value transfer accepts it, rejects it, or (a contract)
\* calls back into the ledger from its receive hook and then accepts.
AcceptBeh == [kind |-> "accept"]
RejectBeh == [kind |-> "reject"]

\* A call's name and arguments; a function leaves the fields it has no
\* argument for at their zero value.  amount is msg.value for initAsset.
NoCall == [fn |-> "none", id |-> ZeroID, addr |-> ZeroAddr, geo |-> "",
           stage |-> Warehouse, photo |-> 0, amount |-> 0, role |-> ""]

ScanCall(id, geo, stage, photo) ==
    [NoCall EXCEPT !.fn = "scanAsset", !.id = id, !.geo = geo,
                   !.stage = stage, !.photo = photo]
ManualReleaseCall(id, recipient, amount) ==
    [NoCall EXCEPT !.fn = "manualReleaseFunds", !.id = id, !.addr = recipient,
                   !.amount = amount]
RefundCall(id) == [NoCall EXCEPT !.fn = "requestRefund", !.id = id]

ReenterBeh(call) == [kind |-> "reenter", call |-> call]

\* What a value transfer left: whether the call returned true, the storage
\* after it, and what happened during it.
CallResult(success, w, transfers, events, nested) ==
    [success |-> success, w |-> w, transfers |-> transfers,
     events |-> events, nested |-> nested]

\* addr.call{value: amount}("") to a recipient that accepts or rejects: it
\* fails when the ledger holds less than amount or the recipient rejects.
SimpleCall(w, to, amount, beh) ==
    IF w.balance < amount \/ beh.kind = "reject"
    THEN CallResult(FALSE, w, <<>>, <<>>, <<>>)
    ELSE CallResult(TRUE, [w EXCEPT !.balance = @ - amount],
                    <<[to |-> to, amount |-> amount]>>, <<>>, <<>>)

(***************************** initAsset ***********************************)

\* DefaultMilestones with the Beneficiary milestone pushed first.
DefaultMilestonesSwapped ==
    << [stage |-> Beneficiary, releasePercentage |-> 60, isReleased |-> FALSE],
       [stage |-> Hub, releasePercentage |-> 40, isReleased |-> FALSE] >>

\* _setupDefaultMilestones
DefaultMilestones ==
    << [stage |-> Hub, releasePercentage |-> 40, isReleased |-> FALSE],
       [stage |-> Beneficiary, releasePercentage |-> 60, isReleased |-> FALSE] >>

ScanLog(timestamp, scanner, geoTag, stage, photoHash, anomalyFlagged, notes) ==
    [timestamp |-> timestamp, scanner |-> scanner, geoTag |-> geoTag,
     stage |-> stage, photoHash |-> photoHash,
     anomalyFlagged |-> anomalyFlagged, notes |-> notes]

\* initAssetError without the require of line 177.
initAssetErrorOverwriting(w, value, id, ngo) ==
    IF id = ZeroID THEN "Invalid assetID"
    ELSE IF ~(value > 0) THEN "Must send funds"
    ELSE IF ngo = ZeroAddr THEN "Invalid NGO address"
    ELSE IF ~HasRole(w, "NGO_ROLE", ngo) THEN "NGO not registered"
    ELSE ""

\* initAsset's require-s: the revert reason, or "" when they pass.
initAssetError(w, value, id, ngo) ==
    IF id = ZeroID THEN "Invalid assetID"
    ELSE IF ~(value > 0) THEN "Must send funds"
    ELSE IF ngo = ZeroAddr THEN "Invalid NGO address"
    ELSE IF ~HasRole(w, "NGO_ROLE", ngo) THEN "NGO not registered"
    ELSE IF w.assets[id].donor # ZeroAddr THEN "Asset already exists"
    ELSE ""

initAsset(w, sender, value, id, ngo, geo) ==
    IF initAssetError(w, value, id, ngo) # ""
    THEN Revert(w, initAssetError(w, value, id, ngo))
    ELSE
      LET newAsset == [w.assets[id] EXCEPT
                         !.allocatedFunds = value,
                         !.donor = sender,
                         !.assignedNGO = ngo,
                         !.donorTimestamp = w.now,
                         !.assetDescription = "aid",
                         !.currentGeoTag = geo,
                         !.currentStage = Warehouse,
                         !.scansCount = 1]
          w1 == [w EXCEPT
                   !.balance = @ + value,
                   !.assets[id] = newAsset,
                   !.assetMilestones[id] = @ \o DefaultMilestones,
                   !.assetHistory[id] = Append(@,
                       ScanLog(w.now, sender, geo, Warehouse, 0, FALSE,
                               "Asset initialized")),
                   !.donorAssets[sender] = Append(@, id),
                   !.donorTotalContributions[sender] = @ + value,
                   !.totalAssetsTracked = @ + 1,
                   !.totalFundsAllocated = @ + value]
      IN Ok(w1, <<>>,
            <<[name |-> "AssetInitialized", id |-> id, addr |-> sender,
               amount |-> value, stage |-> Warehouse]>>, <<>>)

(************** scanAsset, manualReleaseFunds, requestRefund ***************)

\* AnomalyDetected without the stage check of line 235.
AnomalyDetectedRegressionUnchecked(asset, geo, stage, photo) ==
    \/ (asset.currentGeoTag = geo /\ stage # asset.currentStage)
    \/ ((stage = Hub \/ stage = Beneficiary) /\ photo = 0)

\* AnomalyDetected without the photo check of line 246.
AnomalyDetectedPhotoUnchecked(asset, geo, stage, photo) ==
    \/ stage < asset.currentStage
    \/ (asset.currentGeoTag = geo /\ stage # asset.currentStage)

\* The three anomaly checks of scanAsset, each evaluated, any one suffices.
AnomalyDetected(asset, geo, stage, photo) ==
    \/ stage < asset.currentStage
    \/ (asset.currentGeoTag = geo /\ stage # asset.currentStage)
    \/ ((stage = Hub \/ stage = Beneficiary) /\ photo = 0)

\* MilestoneDue without the threshold on the number of scans.
MilestoneDueBelowThreshold(asset, milestone, minScans) ==
    /\ asset.currentStage >= milestone.stage
    /\ ~milestone.isReleased

\* MilestoneDue without the look at isReleased.
MilestoneDueEvenIfReleased(asset, milestone, minScans) ==
    /\ asset.currentStage >= milestone.stage
    /\ asset.scansCount >= minScans

\* The condition under which _checkAndReleaseMilestone considers a milestone.
MilestoneDue(asset, milestone, minScans) ==
    /\ asset.currentStage >= milestone.stage
    /\ ~milestone.isReleased
    /\ asset.scansCount >= minScans

\* ReleaseAmount with the Beneficiary milestone paying whatever is left.
ReleaseAmountRemainderAtEnd(asset, milestone) ==
    LET releaseAmount == (asset.allocatedFunds * milestone.releasePercentage) \div 100
    IN IF milestone.stage = Beneficiary
          \/ asset.releasedFunds + releaseAmount > asset.allocatedFunds
       THEN asset.allocatedFunds - asset.releasedFunds
       ELSE releaseAmount

\* ReleaseAmount without the clamp to what is left.
ReleaseAmountUnclamped(asset, milestone) ==
    (asset.allocatedFunds * milestone.releasePercentage) \div 100

\* ReleaseAmount with the percentage taken of what is still in escrow.
ReleaseAmountOfRemaining(asset, milestone) ==
    LET releaseAmount == ((asset.allocatedFunds - asset.releasedFunds)
                          * milestone.releasePercentage) \div 100
    IN IF asset.releasedFunds + releaseAmount > asset.allocatedFunds
       THEN asset.allocatedFunds - asset.releasedFunds
       ELSE releaseAmount

\* The amount _checkAndReleaseMilestone pays for a due milestone.
ReleaseAmount(asset, milestone) ==
    LET releaseAmount == (asset.allocatedFunds * milestone.releasePercentage) \div 100
    IN IF asset.releasedFunds + releaseAmount > asset.allocatedFunds
       THEN asset.allocatedFunds - asset.releasedFunds
       ELSE releaseAmount

\* MarkReleased leaving both writes until after the transfer.
MarkReleasedLate(w, id, i, releaseAmount) == w

\* The writes _checkAndReleaseMilestone makes before the transfer.
MarkReleased(w, id, i, releaseAmount) ==
    [w EXCEPT !.assetMilestones[id][i].isReleased = TRUE,
              !.assets[id].releasedFunds = @ + releaseAmount]

\* CreditRelease without the write to totalFundsReleased.
CreditReleaseToNGOOnly(w, id, releaseAmount) ==
    [w EXCEPT !.ngoTotalReceived[w.assets[id].assignedNGO] = @ + releaseAmount]

\* The writes _checkAndReleaseMilestone makes after the transfer, and its events.
CreditRelease(w, id, releaseAmount) ==
    [w EXCEPT !.ngoTotalReceived[w.assets[id].assignedNGO] = @ + releaseAmount,
              !.totalFundsReleased = @ + releaseAmount]

ReleaseEvents(w, id, i, releaseAmount) ==
    <<[name |-> "MilestoneReached", id |-> id, addr |-> ZeroAddr,
       amount |-> releaseAmount, stage |-> w.assetMilestones[id][i].stage],
      [name |-> "FundsReleased", id |-> id, addr |-> w.assets[id].assignedNGO,
       amount |-> releaseAmount, stage |-> w.assetMilestones[id][i].stage]>>

\* Whether iteration i of _checkAndReleaseMilestone's loop pays, and how much.
Releases(w, id, i) ==
    /\ MilestoneDue(w.assets[id], w.assetMilestones[id][i],
                    w.minScansForFirstPayout)
    /\ ReleaseAmount(w.assets[id], w.assetMilestones[id][i]) > 0

\* releaseAfterCall without the require on the transfer's success.
releaseAfterCallUnchecked(acc, id, i, releaseAmount, c) ==
    Ok(CreditRelease(c.w, id, releaseAmount),
       acc.transfers \o c.transfers,
       acc.events \o c.events \o ReleaseEvents(c.w, id, i, releaseAmount),
       acc.nested \o c.nested)

\* An iteration that pays, after its transfer c: the require and what follows.
releaseAfterCall(acc, id, i, releaseAmount, c) ==
    IF ~c.success THEN Revert(acc.w, "Transfer failed")
    ELSE Ok(CreditRelease(c.w, id, releaseAmount),
            acc.transfers \o c.transfers,
            acc.events \o c.events \o ReleaseEvents(c.w, id, i, releaseAmount),
            acc.nested \o c.nested)

\* scanError without the notFlagged modifier.
scanErrorFlagUnchecked(w, sender, id) ==
    IF ~HasRole(w, "SCANNER_ROLE", sender) THEN "AccessControl"
    ELSE IF ~AssetExists(w, id) THEN "Asset not initialized"
    ELSE ""

\* scanAsset's modifiers: the revert reason, or "" when they pass.
scanError(w, sender, id) ==
    IF ~HasRole(w, "SCANNER_ROLE", sender) THEN "AccessControl"
    ELSE IF ~AssetExists(w, id) THEN "Asset not initialized"
    ELSE IF w.assets[id].isFlagged THEN "Asset is flagged"
    ELSE ""

\* scanWrites keeping the asset's stage when the reported one is earlier.
scanWritesNeverGoingBack(w, sender, id, geo, stage, photo) ==
    [w EXCEPT
       !.assets[id].isFlagged =
           IF AnomalyDetected(w.assets[id], geo, stage, photo) THEN TRUE ELSE @,
       !.assets[id].scansCount = @ + 1,
       !.assets[id].currentGeoTag = geo,
       !.assets[id].currentStage = IF stage < @ THEN @ ELSE stage,
       !.assetHistory[id] = Append(@,
           ScanLog(w.now, sender, geo, stage, photo,
                   AnomalyDetected(w.assets[id], geo, stage, photo), "note"))]

\* scanWrites counting the scan twice.
scanWritesCountingTwice(w, sender, id, geo, stage, photo) ==
    [w EXCEPT
       !.assets[id].isFlagged =
           IF AnomalyDetected(w.assets[id], geo, stage, photo) THEN TRUE ELSE @,
       !.assets[id].scansCount = @ + 2,
       !.assets[id].currentGeoTag = geo,
       !.assets[id].currentStage = stage,
       !.assetHistory[id] = Append(@,
           ScanLog(w.now, sender, geo, stage, photo,
                   AnomalyDetected(w.assets[id], geo, stage, photo), "note"))]

\* scanAsset's writes before it calls _checkAndReleaseMilestone: the flag,
\* the asset's update and the new log entry.
scanWrites(w, sender, id, geo, stage, photo) ==
    [w EXCEPT
       !.assets[id].isFlagged =
           IF AnomalyDetected(w.assets[id], geo, stage, photo) THEN TRUE ELSE @,
       !.assets[id].scansCount = @ + 1,
       !.assets[id].currentGeoTag = geo,
       !.assets[id].currentStage = stage,
       !.assetHistory[id] = Append(@,
           ScanLog(w.now, sender, geo, stage, photo,
                   AnomalyDetected(w.assets[id], geo, stage, photo), "note"))]

scanEvents(w, sender, id, geo, stage, photo) ==
    (IF AnomalyDetected(w.assets[id], geo, stage, photo)
     THEN <<[name |-> "AssetFlagged", id |-> id, addr |-> sender,
             amount |-> 0, stage |-> stage]>>
     ELSE <<>>)
    \o <<[name |-> "ScanLogged", id |-> id, addr |-> sender, amount |-> 0,
          stage |-> stage]>>

\* scanAsset after _checkAndReleaseMilestone returned r.
scanResult(w, events, r) ==
    IF ~r.ok THEN Revert(w, r.err)
    ELSE Ok(r.w, r.transfers, events \o r.events, r.nested)

\* manualReleaseError without the require of line 351.
manualReleaseErrorUnbounded(w, sender, id, amount) ==
    IF ~HasRole(w, "AUDITOR_ROLE", sender) THEN "AccessControl"
    ELSE IF ~AssetExists(w, id) THEN "Asset not initialized"
    ELSE IF w.status = ENTERED THEN "ReentrancyGuard: reentrant call"
    ELSE IF ~(amount > 0) THEN "Amount must be positive"
    ELSE ""

\* manualReleaseError without the require of line 352.
manualReleaseErrorZeroAllowed(w, sender, id, amount) ==
    IF ~HasRole(w, "AUDITOR_ROLE", sender) THEN "AccessControl"
    ELSE IF ~AssetExists(w, id) THEN "Asset not initialized"
    ELSE IF w.status = ENTERED THEN "ReentrancyGuard: reentrant call"
    ELSE IF ~(amount <= w.assets[id].allocatedFunds - w.assets[id].releasedFunds)
         THEN "Insufficient funds"
    ELSE ""

\* manualReleaseFunds' modifiers and require-s: the revert reason, or "".
manualReleaseError(w, sender, id, amount) ==
    IF ~HasRole(w, "AUDITOR_ROLE", sender) THEN "AccessControl"
    ELSE IF ~AssetExists(w, id) THEN "Asset not initialized"
    ELSE IF w.status = ENTERED THEN "ReentrancyGuard: reentrant call"
    ELSE IF ~(amount <= w.assets[id].allocatedFunds - w.assets[id].releasedFunds)
         THEN "Insufficient funds"
    ELSE IF ~(amount > 0) THEN "Amount must be positive"
    ELSE ""

\* manualReleaseFunds' writes before the transfer.
manualReleaseWrites(w, id, amount) ==
    [w EXCEPT !.status = ENTERED, !.assets[id].releasedFunds = @ + amount]

\* manualReleaseFunds after its transfer c.
manualReleaseAfterCall(w, id, recipient, amount, c) ==
    IF ~c.success THEN Revert(w, "Transfer failed")
    ELSE Ok([c.w EXCEPT !.ngoTotalReceived[recipient] = @ + amount,
                        !.totalFundsReleased = @ + amount,
                        !.status = NOT_ENTERED],
            c.transfers,
            c.events \o <<[name |-> "FundsReleased", id |-> id,
                           addr |-> recipient, amount |-> amount,
                           stage |-> c.w.assets[id].currentStage]>>,
            c.nested)

\* RefundEligible with the lock period over at its last second already.
RefundEligibleAtExpiry(asset, timestamp) ==
    \/ asset.isFlagged
    \/ /\ timestamp >= asset.donorTimestamp + REFUND_LOCK_PERIOD
       /\ asset.currentStage < Beneficiary

\* isEligible of requestRefund
RefundEligible(asset, timestamp) ==
    \/ asset.isFlagged
    \/ /\ timestamp > asset.donorTimestamp + REFUND_LOCK_PERIOD
       /\ asset.currentStage < Beneficiary

\* refundAmount of requestRefund
RefundAmount(asset) == asset.allocatedFunds - asset.releasedFunds

\* requestRefundError without the require on isRefunded.
requestRefundErrorRefundedUnchecked(w, sender, id) ==
    IF w.status = ENTERED THEN "ReentrancyGuard: reentrant call"
    ELSE IF ~AssetExists(w, id) THEN "Asset not initialized"
    ELSE IF w.assets[id].donor # sender THEN "Not the donor"
    ELSE IF ~RefundEligible(w.assets[id], w.now) THEN "Not eligible for refund"
    ELSE IF ~(RefundAmount(w.assets[id]) > 0) THEN "No funds to refund"
    ELSE ""

\* requestRefund's modifiers and require-s: the revert reason, or "".
requestRefundError(w, sender, id) ==
    IF w.status = ENTERED THEN "ReentrancyGuard: reentrant call"
    ELSE IF ~AssetExists(w, id) THEN "Asset not initialized"
    ELSE IF w.assets[id].donor # sender THEN "Not the donor"
    ELSE IF w.assets[id].isRefunded THEN "Already refunded"
    ELSE IF ~RefundEligible(w.assets[id], w.now) THEN "Not eligible for refund"
    ELSE IF ~(RefundAmount(w.assets[id]) > 0) THEN "No funds to refund"
    ELSE ""

\* requestRefundWrites also dropping the asset's log.
requestRefundWritesErasingHistory(w, id) ==
    [w EXCEPT !.status = ENTERED,
              !.assets[id].isRefunded = TRUE,
              !.assets[id].allocatedFunds = w.assets[id].releasedFunds,
              !.assetHistory[id] = <<>>]

\* requestRefundWrites without the write to allocatedFunds.
requestRefundWritesKeepingAllocation(w, id) ==
    [w EXCEPT !.status = ENTERED,
              !.assets[id].isRefunded = TRUE]

\* requestRefundWrites, closing the asset's books at zero instead of at what
\* was released.
requestRefundWritesZeroed(w, id) ==
    [w EXCEPT !.status = ENTERED,
              !.assets[id].isRefunded = TRUE,
              !.assets[id].allocatedFunds = 0]

\* requestRefund's writes before the transfer.
requestRefundWrites(w, id) ==
    [w EXCEPT !.status = ENTERED,
              !.assets[id].isRefunded = TRUE,
              !.assets[id].allocatedFunds = w.assets[id].releasedFunds]

\* requestRefundAfterCall, lifting the asset's flag on the way out.
requestRefundAfterCallUnflagging(w, sender, id, refundAmount, c) ==
    IF ~c.success THEN Revert(w, "Refund transfer failed")
    ELSE Ok([c.w EXCEPT !.status = NOT_ENTERED,
                        !.assets[id].isFlagged = FALSE],
            c.transfers,
            c.events \o <<[name |-> "Refunded", id |-> id, addr |-> sender,
                           amount |-> refundAmount,
                           stage |-> c.w.assets[id].currentStage]>>,
            c.nested)

\* requestRefund after its transfer c of refundAmount.
requestRefundAfterCall(w, sender, id, refundAmount, c) ==
    IF ~c.success THEN Revert(w, "Refund transfer failed")
    ELSE Ok([c.w EXCEPT !.status = NOT_ENTERED], c.transfers,
            c.events \o <<[name |-> "Refunded", id |-> id, addr |-> sender,
                           amount |-> refundAmount,
                           stage |-> c.w.assets[id].currentStage]>>,
            c.nested)

(******************* the functions, entered from a hook *********************)

\* scanAsset, manualReleaseFunds and requestRefund as a recipient's hook
\* calls them during a transfer.  The transfers they make themselves are
\* accepted (or fail for want of balance) without a further call back.

\* One iteration of _checkAndReleaseMilestone's loop, for milestone i
\* (1-based), on the outcome acc of the iterations before it.
releaseStepFromHook(acc, id, i) ==
    IF ~acc.ok \/ ~Releases(acc.w, id, i) THEN acc
    ELSE
      LET amt == ReleaseAmount(acc.w.assets[id], acc.w.assetMilestones[id][i])
      IN releaseAfterCall(acc, id, i, amt,
             SimpleCall(MarkReleased(acc.w, id, i, amt),
                        acc.w.assets[id].assignedNGO, amt, AcceptBeh))

checkAndReleaseMilestoneFromHook(w, id) ==
    LET n == Len(w.assetMilestones[id])
        run[i \in 0..n] ==
            IF i = 0 THEN Ok(w, <<>>, <<>>, <<>>)
            ELSE releaseStepFromHook(run[i - 1], id, i)
    IN run[n]

scanAssetFromHook(w, sender, id, geo, stage, photo) ==
    IF scanError(w, sender, id) # "" THEN Revert(w, scanError(w, sender, id))
    ELSE scanResult(w, scanEvents(w, sender, id, geo, stage, photo),
             checkAndReleaseMilestoneFromHook(
                 scanWrites(w, sender, id, geo, stage, photo), id))

manualReleaseFundsFromHook(w, sender, id, recipient, amount) ==
    IF manualReleaseError(w, sender, id, amount) # ""
    THEN Revert(w, manualReleaseError(w, sender, id, amount))
    ELSE manualReleaseAfterCall(w, id, recipient, amount,
             SimpleCall(manualReleaseWrites(w, id, amount), recipient, amount,
                        AcceptBeh))

requestRefundFromHook(w, sender, id) ==
    IF requestRefundError(w, sender, id) # ""
    THEN Revert(w, requestRefundError(w, sender, id))
    ELSE requestRefundAfterCall(w, sender, id, RefundAmount(w.assets[id]),
             SimpleCall(requestRefundWrites(w, id), w.assets[id].donor,
                        RefundAmount(w.assets[id]), AcceptBeh))

\* The call a hook makes, by name.
Dispatch(w, sender, call) ==
    CASE call.fn = "scanAsset" ->
           scanAssetFromHook(w, sender, call.id, call.geo, call.stage,
                             call.photo)
      [] call.fn = "manualReleaseFunds" ->
           manualReleaseFundsFromHook(w, sender, call.id, call.addr,
                                      call.amount)
      [] call.fn = "requestRefund" ->
           requestRefundFromHook(w, sender, call.id)
      [] OTHER -> Revert(w, "Function does not exist")

\* A transfer c that went through, and the call r its recipient's hook made:
\* a nested call that reverts (r.w is then the storage it was entered with)
\* is caught by the hook, which accepts all the same.
ReenteredCall(call, c, r) ==
    CallResult(TRUE, r.w, c.transfers \o r.transfers, r.events,
               <<[call |-> call, ok |-> r.ok, err |-> r.err]>>)

\* The hook of recipient to runs once the value of transfer c has arrived.
RunHook(to, call, c) ==
    IF ~c.success THEN c ELSE ReenteredCall(call, c, Dispatch(c.w, to, call))

\* addr.call{value: amount}(""): as SimpleCall, and a recipient that calls
\* back does so holding the value already, as msg.sender, against the storage
\* the caller has written so far.
ExtCall(w, to, amount, beh) ==
    IF beh.kind # "reenter" THEN SimpleCall(w, to, amount, beh)
    ELSE RunHook(to, beh.call, SimpleCall(w, to, amount, AcceptBeh))

(********************** the functions, called externally ********************)

\* One iteration of _checkAndReleaseMilestone's loop, for milestone i
\* (1-based), on the outcome acc of the iterations before it.  asset and
\* milestones are storage references: the iteration reads the storage the
\* previous one, and any call made during its transfer, left.
releaseStep(acc, id, i, beh) ==
    IF ~acc.ok \/ ~Releases(acc.w, id, i) THEN acc
    ELSE
      LET amt == ReleaseAmount(acc.w.assets[id], acc.w.assetMilestones[id][i])
      IN releaseAfterCall(acc, id, i, amt,
             ExtCall(MarkReleased(acc.w, id, i, amt),
                     acc.w.assets[id].assignedNGO, amt, beh))

\* _checkAndReleaseMilestone: the loop over the asset's milestones, in order.
checkAndReleaseMilestone(w, id, beh) ==
    LET n == Len(w.assetMilestones[id])
        run[i \in 0..n] ==
            IF i = 0 THEN Ok(w, <<>>, <<>>, <<>>)
            ELSE releaseStep(run[i - 1], id, i, beh)
    IN run[n]

scanAsset(w, sender, id, geo, stage, photo, beh) ==
    IF scanError(w, sender, id) # "" THEN Revert(w, scanError(w, sender, id))
    ELSE scanResult(w, scanEvents(w, sender, id, geo, stage, photo),
             checkAndReleaseMilestone(
                 scanWrites(w, sender, id, geo, stage, photo), id, beh))

manualReleaseFunds(w, sender, id, recipient, amount, beh) ==
    IF manualReleaseError(w, sender, id, amount) # ""
    THEN Revert(w, manualReleaseError(w, sender, id, amount))
    ELSE manualReleaseAfterCall(w, id, recipient, amount,
             ExtCall(manualReleaseWrites(w, id, amount), recipient, amount,
                     beh))

requestRefund(w, sender, id, beh) ==
    IF requestRefundError(w, sender, id) # ""
    THEN Revert(w, requestRefundError(w, sender, id))
    ELSE requestRefundAfterCall(w, sender, id, RefundAmount(w.assets[id]),
             ExtCall(requestRefundWrites(w, id), w.assets[id].donor,
                     RefundAmount(w.assets[id]), beh))

(************************* flagAsset / unflagAsset *************************)

\* flagAsset starting the asset's scan count over.
flagAssetResettingScans(w, sender, id) ==
    IF ~HasRole(w, "AUDITOR_ROLE", sender) THEN Revert(w, "AccessControl")
    ELSE IF ~AssetExists(w, id) THEN Revert(w, "Asset not initialized")
    ELSE Ok([w EXCEPT !.assets[id].isFlagged = TRUE,
                      !.assets[id].scansCount = 0], <<>>,
            <<[name |-> "AssetFlagged", id |-> id, addr |-> sender,
               amount |-> 0, stage |-> w.assets[id].currentStage]>>, <<>>)

flagAsset(w, sender, id) ==
    IF ~HasRole(w, "AUDITOR_ROLE", sender) THEN Revert(w, "AccessControl")
    ELSE IF ~AssetExists(w, id) THEN Revert(w, "Asset not initialized")
    ELSE Ok([w EXCEPT !.assets[id].isFlagged = TRUE], <<>>,
            <<[name |-> "AssetFlagged", id |-> id, addr |-> sender,
               amount |-> 0, stage |-> w.assets[id].currentStage]>>, <<>>)

unflagAsset(w, sender, id) ==
    IF ~HasRole(w, "AUDITOR_ROLE", sender) THEN Revert(w, "AccessControl")
    ELSE IF ~AssetExists(w, id) THEN Revert(w, "Asset not initialized")
    ELSE Ok([w EXCEPT !.assets[id].isFlagged = FALSE], <<>>,
            <<[name |-> "AssetUnflagged", id |-> id, addr |-> sender,
               amount |-> 0, stage |-> w.assets[id].currentStage]>>, <<>>)

(************************ roles and parameters *****************************)

\* AccessControl.grantRole, as addScanner and addNGO call it: msg.sender is
\* still the external caller, who must hold the role's admin role.
grantRole(w, sender, role, account) ==
    IF ~HasRole(w, RoleAdmin(role), sender) THEN Revert(w, "AccessControl")
    ELSE Ok([w EXCEPT !.roles[role] = @ \cup {account}], <<>>, <<>>, <<>>)

\* AccessControl.revokeRole
revokeRole(w, sender, role, account) ==
    IF ~HasRole(w, RoleAdmin(role), sender) THEN Revert(w, "AccessControl")
    ELSE Ok([w EXCEPT !.roles[role] = @ \ {account}], <<>>, <<>>, <<>>)

\* AccessControl.renounceRole: an account gives up a role of its own.
renounceRole(w, sender, role, account) ==
    IF account # sender
    THEN Revert(w, "AccessControl: can only renounce roles for self")
    ELSE Ok([w EXCEPT !.roles[role] = @ \ {account}], <<>>, <<>>, <<>>)

addScanner(w, sender, scanner) ==
    IF ~HasRole(w, "ADMIN_ROLE", sender) THEN Revert(w, "AccessControl")
    ELSE grantRole(w, sender, "SCANNER_ROLE", scanner)

addNGO(w, sender, ngo) ==
    IF ~HasRole(w, "ADMIN_ROLE", sender) THEN Revert(w, "AccessControl")
    ELSE grantRole(w, sender, "NGO_ROLE", ngo)

updateMinScans(w, sender, newMin) ==
    IF ~HasRole(w, "ADMIN_ROLE", sender) THEN Revert(w, "AccessControl")
    ELSE IF ~(newMin > 0) THEN Revert(w, "Must be positive")
    ELSE Ok([w EXCEPT !.minScansForFirstPayout = newMin], <<>>, <<>>, <<>>)

(**************************** emergencyWithdraw ****************************)

\* emergencyWithdraw after its transfer c.
emergencyWithdrawAfterCall(w, c) ==
    IF ~c.success THEN Revert(w, "Withdrawal failed")
    ELSE Ok(c.w, c.transfers, c.events, c.nested)

emergencyWithdraw(w, sender, recipient, beh) ==
    IF ~HasRole(w, "DEFAULT_ADMIN_ROLE", sender) THEN Revert(w, "AccessControl")
    ELSE IF recipient = ZeroAddr THEN Revert(w, "Invalid recipient")
    ELSE IF ~(w.balance > 0) THEN Revert(w, "No balance")
    ELSE emergencyWithdrawAfterCall(w, ExtCall(w, recipient, w.balance, beh))

(**************************** receive / fallback ***************************)

\* receive taking the value sent into the contract's balance.
receiveAccepting(w, sender, value) ==
    Ok([w EXCEPT !.balance = @ + value], <<>>, <<>>, <<>>)

\* A plain transfer of value to the contract: the value is credited for the
\* duration of the call and returned by the revert.
receive(w, sender, value) ==
    Revert(w, "Use initAsset() to donate")

\* A call, with or without value, to a function the contract does not have.
fallback(w, sender, value) ==
    Revert(w, "Function does not exist")

(******************************* views *************************************)

\* What a view returns: its two values, or the reason it reverted.
Progress(progressPercentage, fundsReleasedPercentage) ==
    [ok |-> TRUE, err |-> "",
     progressPercentage |-> progressPercentage,
     fundsReleasedPercentage |-> fundsReleasedPercentage]

NoProgress(err) ==
    [ok |-> FALSE, err |-> err, progressPercentage |-> 0,
     fundsReleasedPercentage |-> 0]

\* getAssetProgress dividing the stage by the number of stages instead of by
\* the last stage.
getAssetProgressOverStageCount(w, id) ==
    IF ~AssetExists(w, id) THEN NoProgress("Asset not initialized")
    ELSE IF w.assets[id].allocatedFunds = 0
    THEN NoProgress("SafeMath: division by zero")
    ELSE Progress((w.assets[id].currentStage * 100) \div (Beneficiary + 1),
                  (w.assets[id].releasedFunds * 100)
                      \div w.assets[id].allocatedFunds)

\* getAssetProgress.  SafeMath's div reverts on a zero divisor; its mul
\* cannot overflow 256 bits for the amounts of this model.
getAssetProgress(w, id) ==
    IF ~AssetExists(w, id) THEN NoProgress("Asset not initialized")
    ELSE IF w.assets[id].allocatedFunds = 0
    THEN NoProgress("SafeMath: division by zero")
    ELSE Progress((w.assets[id].currentStage * 100) \div Beneficiary,
                  (w.assets[id].releasedFunds * 100)
                      \div w.assets[id].allocatedFunds)

\* What getPlatformStats returns, or the reason it reverted.
PlatformStats(totalAssets, totalAllocated, totalReleased, fundsInTransit) ==
    [ok |-> TRUE, err |-> "", totalAssets |-> totalAssets,
     totalAllocated |-> totalAllocated, totalReleased |-> totalReleased,
     fundsInTransit |-> fundsInTransit]

\* getPlatformStats; SafeMath's sub reverts when it would go below zero.
getPlatformStats(w) ==
    IF w.totalFundsReleased > w.totalFundsAllocated
    THEN [PlatformStats(0, 0, 0, 0) EXCEPT
              !.ok = FALSE, !.err = "SafeMath: subtraction overflow"]
    ELSE PlatformStats(w.totalAssetsTracked, w.totalFundsAllocated,
                       w.totalFundsReleased,
                       w.totalFundsAllocated - w.totalFundsReleased)

(***************************** transactions ********************************)

\* The calls a recipient's hook makes when it calls back during a transfer
\* made for asset id.
ReentrantCalls(id) ==
    {ScanCall(id, "geoB", Beneficiary, 1),
     ManualReleaseCall(id, "ngo", 1),
     RefundCall(id)}

Behaviours(id) ==
    {AcceptBeh, RejectBeh} \cup {ReenterBeh(c) : c \in ReentrantCalls(id)}

\* The timestamps of later blocks: the moment an existing asset's refund lock
\* runs out, and the seconds just after it.
TimePoints ==
    {assets[id].donorTimestamp + REFUND_LOCK_PERIOD + k :
        id \in {i \in AssetIDs : assets[i].donor # ZeroAddr}, k \in 0..MaxSlack}

\* A transaction that returns commits its storage.  One that reverts leaves
\* storage as it was and is no step of the ledger.
Commit(r) ==
    /\ r.ok
    /\ roles' = r.w.roles
    /\ minScansForFirstPayout' = r.w.minScansForFirstPayout
    /\ assets' = r.w.assets
    /\ assetHistory' = r.w.assetHistory
    /\ assetMilestones' = r.w.assetMilestones
    /\ donorTotalContributions' = r.w.donorTotalContributions
    /\ ngoTotalReceived' = r.w.ngoTotalReceived
    /\ donorAssets' = r.w.donorAssets
    /\ totalAssetsTracked' = r.w.totalAssetsTracked
    /\ totalFundsAllocated' = r.w.totalFundsAllocated
    /\ totalFundsReleased' = r.w.totalFundsReleased
    /\ balance' = r.w.balance
    /\ status' = r.w.status
    /\ now' = now
    /\ UNCHANGED session

Init ==
    /\ roles = [r \in Roles |->
                  CASE r = "DEFAULT_ADMIN_ROLE" -> {"admin"}
                    [] r = "ADMIN_ROLE" -> {"admin"}
                    [] r = "AUDITOR_ROLE" -> {"auditor"}
                    [] OTHER -> {}]
    /\ minScansForFirstPayout = DefaultMinScans
    /\ assets = [id \in IDs |-> EmptyAsset]
    /\ assetHistory = [id \in IDs |-> <<>>]
    /\ assetMilestones = [id \in IDs |-> <<>>]
    /\ donorTotalContributions = [a \in Addrs |-> 0]
    /\ ngoTotalReceived = [a \in Addrs |-> 0]
    /\ donorAssets = [a \in Addrs |-> <<>>]
    /\ totalAssetsTracked = 0
    /\ totalFundsAllocated = 0
    /\ totalFundsReleased = 0
    /\ balance = 0
    /\ status = NOT_ENTERED
    /\ now = GenesisTime
    /\ sessionAccount = Null
    /\ sessionProvider = FALSE
    /\ sessionContract = FALSE
    /\ isAdmin = FALSE
    /\ isAuditor = FALSE
    /\ isScanner = FALSE
    /\ isNGO = FALSE
    /\ roleQueries = [a \in WalletAccounts |-> 0]
    /\ connecting = 0

InitAsset(ids) ==
    \E sender \in {"donor"}, id \in {ZeroID} \cup ids, value \in Values,
       ngo \in {"ngo", "donor", ZeroAddr}, geo \in {"geoA"} :
        Commit(initAsset(World, sender, value, id, ngo, geo))

ScanAsset(ids) ==
    \E sender \in {"scanner", "admin"}, id \in ids, in \in ScanInputs :
      \E beh \in Behaviours(id) :
        /\ assets[id].scansCount < MaxScans
        /\ Commit(scanAsset(World, sender, id, in.geo, in.stage, in.photo, beh))

\* The recipient is an arbitrary address; "scanner" is one whose hook is
\* allowed to call scanAsset back.
ManualReleaseFunds(ids) ==
    \E sender \in {"auditor", "admin"}, id \in ids,
       recipient \in {"scanner"}, amount \in Amounts :
      \E beh \in Behaviours(id) :
        Commit(manualReleaseFunds(World, sender, id, recipient, amount, beh))

FlagAsset(ids) ==
    \E sender \in {"auditor", "scanner"}, id \in ids :
        Commit(flagAsset(World, sender, id))

UnflagAsset(ids) ==
    \E sender \in {"auditor", "scanner"}, id \in ids :
        Commit(unflagAsset(World, sender, id))

RequestRefund(ids) ==
    \E sender \in {"donor", "ngo", "auditor"}, id \in ids :
      \E beh \in Behaviours(id) :
        Commit(requestRefund(World, sender, id, beh))

AddScanner ==
    \E sender \in {"admin", "auditor"}, scanner \in {"scanner"} :
        Commit(addScanner(World, sender, scanner))

AddNGO ==
    \E sender \in {"admin", "auditor"}, ngo \in {"ngo"} :
        Commit(addNGO(World, sender, ngo))

UpdateMinScans ==
    \E sender \in {"admin", "auditor"}, newMin \in MinScanInputs :
        Commit(updateMinScans(World, sender, newMin))

EmergencyWithdraw ==
    \E sender \in {"admin", "auditor"}, recipient \in {"admin", ZeroAddr},
       beh \in {AcceptBeh, RejectBeh} :
        Commit(emergencyWithdraw(World, sender, recipient, beh))

\* A later block: only the timestamp moves.
Tick ==
    \E t \in TimePoints :
        /\ t > now
        /\ now' = t
        /\ UNCHANGED <<storage, session>>

\* grantRole, revokeRole and renounceRole are external functions of the
\* contract as well, inherited from AccessControl.
GrantedRoles == {"ADMIN_ROLE", "AUDITOR_ROLE", "SCANNER_ROLE"}

GrantRole ==
    \E sender \in {"admin", "auditor", "scanner"}, role \in GrantedRoles,
       account \in {"auditor", "scanner"} :
        Commit(grantRole(World, sender, role, account))

RevokeRole ==
    \E sender \in {"admin", "auditor", "scanner"}, role \in GrantedRoles,
       account \in {"auditor", "scanner"} :
        Commit(revokeRole(World, sender, role, account))

RenounceRole ==
    \E sender \in {"auditor", "scanner"}, role \in GrantedRoles,
       account \in {"auditor", "scanner"} :
        Commit(renounceRole(World, sender, role, account))

Next ==
    \/ InitAsset(SpecIDs)
    \/ ScanAsset(SpecIDs)
    \/ ManualReleaseFunds(SpecIDs)
    \/ FlagAsset(SpecIDs)
    \/ UnflagAsset(SpecIDs)
    \/ RequestRefund(SpecIDs)
    \/ AddScanner
    \/ AddNGO
    \/ UpdateMinScans
    \/ EmergencyWithdraw
    \/ Tick

Spec == Init /\ [][Next]_vars

\* The ledger with its roles moving: grants, revocations and renunciations,
\* around an asset that is created and flagged but never scanned.
NextRoles ==
    \/ GrantRole
    \/ RevokeRole
    \/ RenounceRole
    \/ AddScanner
    \/ AddNGO
    \/ InitAsset(SpecIDs)
    \/ FlagAsset(SpecIDs)
    \/ UnflagAsset(SpecIDs)
    \/ UpdateMinScans

SpecRoles == Init /\ [][NextRoles]_vars

\* The ledger around an NGO that is a contract and holds every part at once:
\* it funds an asset assigned to itself, is registered as a scanner and is
\* granted the auditor role, so that the calls its receive hook makes during
\* a payout pass the role checks.
EnlistNGOAsScanner ==
    Commit(addScanner(World, "admin", "ngo"))

GrantNGOAuditor ==
    Commit(grantRole(World, "admin", "AUDITOR_ROLE", "ngo"))

InitAssetByNGO ==
    \E id \in SpecIDs, value \in Values :
        Commit(initAsset(World, "ngo", value, id, "ngo", "geoA"))

ScanAssetByNGO ==
    \E id \in SpecIDs, in \in ScanInputs :
      \E beh \in Behaviours(id) :
        /\ assets[id].scansCount < MaxScans
        /\ Commit(scanAsset(World, "ngo", id, in.geo, in.stage, in.photo, beh))

ManualReleaseFundsByNGO ==
    \E id \in SpecIDs, amount \in Amounts :
      \E beh \in Behaviours(id) :
        Commit(manualReleaseFunds(World, "ngo", id, "ngo", amount, beh))

RequestRefundByNGO ==
    \E id \in SpecIDs :
      \E beh \in Behaviours(id) :
        Commit(requestRefund(World, "ngo", id, beh))

NextReentry ==
    \/ AddNGO
    \/ EnlistNGOAsScanner
    \/ GrantNGOAuditor
    \/ InitAssetByNGO
    \/ ScanAssetByNGO
    \/ ManualReleaseFundsByNGO
    \/ RequestRefundByNGO
    \/ FlagAsset(SpecIDs)
    \/ UnflagAsset(SpecIDs)
    \/ UpdateMinScans
    \/ Tick

SpecReentry == Init /\ [][NextReentry]_vars

(************************ the wallet session context ************************)

\* Web3Provider, the front end's React context.  A handler's state updates
\* are committed together, and the effect on [account, contract] runs with
\* the commit.  What is awaited (the wallet's answer to connectWallet, the
\* contract's answers to checkUserRole) arrives in a later step, in any
\* order, after whatever else has happened in between.

QueriesInFlight ==
    roleQueries["admin"] + roleQueries["auditor"] + roleQueries["donor"]

\* checkUserRole up to its await: it returns at once without a contract or
\* an account, and otherwise asks the contract for the four roles of the
\* account of the render it was called in.
checkUserRole(acct, hasContract) ==
    IF ~hasContract \/ acct = Null
    THEN UNCHANGED roleQueries
    ELSE /\ QueriesInFlight < MaxQueries
         /\ roleQueries' = [roleQueries EXCEPT ![acct] = @ + 1]

\* The effect on [account, contract]: it runs when either changed, and calls
\* checkUserRole when both are set.
RoleEffect(acct, hasContract, changed) ==
    IF changed /\ acct # Null /\ hasContract
    THEN checkUserRole(acct, hasContract)
    ELSE UNCHANGED roleQueries

\* checkUserRole after its await: the four setters, with the answers for the
\* account the query was made for.
RoleQueryResolves ==
    \E acct \in WalletAccounts :
        /\ roleQueries[acct] > 0
        /\ roleQueries' = [roleQueries EXCEPT ![acct] = @ - 1]
        /\ isAdmin' = HasRole(World, "ADMIN_ROLE", acct)
        /\ isAuditor' = HasRole(World, "AUDITOR_ROLE", acct)
        /\ isScanner' = HasRole(World, "SCANNER_ROLE", acct)
        /\ isNGO' = HasRole(World, "NGO_ROLE", acct)
        /\ UNCHANGED <<sessionAccount, sessionProvider, sessionContract,
                       connecting, storage, now>>

\* checkUserRole's catch: a query that fails sets nothing.
RoleQueryFails ==
    \E acct \in WalletAccounts :
        /\ roleQueries[acct] > 0
        /\ roleQueries' = [roleQueries EXCEPT ![acct] = @ - 1]
        /\ UNCHANGED <<sessionAccount, sessionProvider, sessionContract,
                       isAdmin, isAuditor, isScanner, isNGO, connecting,
                       storage, now>>

\* checkUserRole called through the context by a component.
CheckUserRole ==
    /\ sessionAccount # Null /\ sessionContract
    /\ checkUserRole(sessionAccount, sessionContract)
    /\ UNCHANGED <<sessionAccount, sessionProvider, sessionContract, isAdmin,
                   isAuditor, isScanner, isNGO, connecting, storage, now>>

\* connectWallet up to its first await.
ConnectWallet ==
    /\ connecting < MaxConnects
    /\ connecting' = connecting + 1
    /\ UNCHANGED <<sessionAccount, sessionProvider, sessionContract, isAdmin,
                   isAuditor, isScanner, isNGO, roleQueries, storage, now>>

\* connectWallet after the wallet answered with the signer's address: a new
\* provider, the account and a new contract instance are set, so the effect
\* runs.
WalletConnects ==
    \E acct \in WalletAccounts :
        /\ connecting > 0
        /\ connecting' = connecting - 1
        /\ sessionProvider' = TRUE
        /\ sessionAccount' = acct
        /\ sessionContract' = TRUE
        /\ RoleEffect(acct, TRUE, TRUE)
        /\ UNCHANGED <<isAdmin, isAuditor, isScanner, isNGO, storage, now>>

\* connectWallet's catch: the user refused, nothing is set.
WalletRefuses ==
    /\ connecting > 0
    /\ connecting' = connecting - 1
    /\ UNCHANGED <<sessionAccount, sessionProvider, sessionContract, isAdmin,
                   isAuditor, isScanner, isNGO, roleQueries, storage, now>>

\* disconnectWallet: the seven setters.  The effect runs and finds no
\* account; queries and connection requests under way are not cancelled.
disconnectWallet ==
    /\ sessionAccount' = Null
    /\ sessionProvider' = FALSE
    /\ sessionContract' = FALSE
    /\ isAdmin' = FALSE
    /\ isAuditor' = FALSE
    /\ isScanner' = FALSE
    /\ isNGO' = FALSE
    /\ UNCHANGED <<roleQueries, connecting, storage, now>>

DisconnectWallet ==
    /\ sessionAccount # Null \/ sessionContract
    /\ disconnectWallet

\* handleAccountsChanged: the wallet reports its accounts, none or one.
handleAccountsChanged(accounts) ==
    IF Len(accounts) = 0 THEN disconnectWallet
    ELSE /\ sessionAccount' = accounts[1]
         /\ RoleEffect(accounts[1], sessionContract,
                       accounts[1] # sessionAccount)
         /\ UNCHANGED <<sessionProvider, sessionContract, isAdmin, isAuditor,
                        isScanner, isNGO, connecting, storage, now>>

AccountsChanged ==
    \E accounts \in {<<>>} \cup {<<a>> : a \in WalletAccounts} :
        /\ accounts = <<>> => (sessionAccount # Null \/ sessionContract)
        /\ accounts # <<>> => accounts[1] # sessionAccount
        /\ handleAccountsChanged(accounts)

\* handleChainChanged reloads the page: the context starts over and what
\* was awaited is dropped with the page.
ChainChanged ==
    /\ sessionAccount # Null \/ QueriesInFlight > 0 \/ connecting > 0
    /\ sessionAccount' = Null
    /\ sessionProvider' = FALSE
    /\ sessionContract' = FALSE
    /\ isAdmin' = FALSE
    /\ isAuditor' = FALSE
    /\ isScanner' = FALSE
    /\ isNGO' = FALSE
    /\ roleQueries' = [a \in WalletAccounts |-> 0]
    /\ connecting' = 0
    /\ UNCHANGED <<storage, now>>

NextWallet ==
    \/ ConnectWallet
    \/ WalletConnects
    \/ WalletRefuses
    \/ DisconnectWallet
    \/ AccountsChanged
    \/ ChainChanged
    \/ CheckUserRole
    \/ RoleQueryResolves
    \/ RoleQueryFails

SpecWallet == Init /\ [][NextWallet]_vars

(******************************* properties ********************************)

\* The assets that have been created.
Existing == {id \in AssetIDs : assets[id].donor # ZeroAddr}

\* The arguments a scan can be submitted with.
ScanArgs == [geo : GeoTags, stage : Stages, photo : PhotoHashes]

\* The call r ran alone: no call made from a recipient's hook during it went
\* through (those a hook attempted were rejected).
RanAlone(r) == \A k \in 1..Len(r.nested) : ~r.nested[k].ok

\* allocatedFunds - releasedFunds, summed over the assets of S.
RECURSIVE Escrowed(_)
Escrowed(S) ==
    IF S = {} THEN 0
    ELSE LET id == CHOOSE x \in S : TRUE
         IN (assets[id].allocatedFunds - assets[id].releasedFunds)
            + Escrowed(S \ {id})

\* The last entry of an asset's scan history, and the one before it.
LastScan(id) == assetHistory[id][Len(assetHistory[id])]
ScanBeforeLast(id) == assetHistory[id][Len(assetHistory[id]) - 1]

(* C1: in every reachable state and for every asset, releasedFunds is at  *)
(* most allocatedFunds.                                                    *)
ReleasedWithinAllocated ==
    \A id \in AssetIDs : assets[id].releasedFunds <= assets[id].allocatedFunds

\* An asset funded with 5 and paid out in full by a manual release (to
\* "scanner") and both milestones, the second of them (3) clamped to what the
\* manual release and the first (2) had left.
PaidOutInFullWithClamp ==
    \E id \in Existing :
        /\ assets[id].allocatedFunds = 5
        /\ assets[id].releasedFunds = assets[id].allocatedFunds
        /\ ~assets[id].isRefunded
        /\ \A i \in 1..Len(assetMilestones[id]) : assetMilestones[id][i].isReleased
        /\ ngoTotalReceived["scanner"] > 0

(* C2: in every reachable state the sum over all assets of                *)
(* allocatedFunds - releasedFunds equals the balance the contract holds,   *)
(* emergencyWithdraw included among the operations.                        *)
EscrowEqualsBalance == Escrowed(AssetIDs) = balance

(* C3: a milestone's isReleased goes from false to true at most once and   *)
(* never back to false, and a scan of an asset pays (MilestoneReached) no  *)
(* milestone that was released before the scan.                            *)
NoRepayOfReleased ==
    \A id \in Existing :
      \A i \in 1..Len(assetMilestones[id]) :
        assetMilestones[id][i].isReleased =>
          \A sender \in roles["SCANNER_ROLE"], in \in ScanArgs :
            \A beh \in Behaviours(id) :
              LET r == scanAsset(World, sender, id, in.geo, in.stage,
                                 in.photo, beh)
              IN r.ok =>
                   \A k \in 1..Len(r.events) :
                     ~ /\ r.events[k].name = "MilestoneReached"
                       /\ r.events[k].id = id
                       /\ r.events[k].stage = assetMilestones[id][i].stage

ReleasedStaysReleased ==
    \A id \in AssetIDs :
      \A i \in 1..Len(assetMilestones[id]) :
        assetMilestones[id][i].isReleased =>
          /\ Len(assetMilestones'[id]) >= i
          /\ assetMilestones'[id][i].isReleased
          /\ assetMilestones'[id][i].stage = assetMilestones[id][i].stage

MilestoneReleasedOnce == []NoRepayOfReleased /\ [][ReleasedStaysReleased]_vars

\* The Hub milestone is released, the Beneficiary one is not, and a scan
\* reporting the Beneficiary stage goes through and pays.
ScanAfterHubReleasePays ==
    \E id \in Existing :
        /\ assetMilestones[id][1].isReleased
        /\ ~assetMilestones[id][2].isReleased
        /\ \E sender \in roles["SCANNER_ROLE"], geo \in GeoTags :
             LET r == scanAsset(World, sender, id, geo, Beneficiary, 1, AcceptBeh)
             IN r.ok /\ r.transfers # <<>>

(* C4: a refund is terminal.  On a refunded asset no scan, manual release  *)
(* or refund request sends value or changes releasedFunds or               *)
(* allocatedFunds, isRefunded never becomes false again, and the donor's   *)
(* second refund request fails with "Already refunded".                    *)
RefundedNothingMoves ==
    \A id \in Existing :
      assets[id].isRefunded =>
        /\ \A sender \in roles["SCANNER_ROLE"], in \in ScanArgs :
             \A beh \in Behaviours(id) :
               LET r == scanAsset(World, sender, id, in.geo, in.stage,
                                  in.photo, beh)
               IN r.ok =>
                    /\ r.transfers = <<>>
                    /\ r.w.balance = balance
                    /\ r.w.assets[id].releasedFunds = assets[id].releasedFunds
                    /\ r.w.assets[id].allocatedFunds = assets[id].allocatedFunds
        /\ \A sender \in Addrs, recipient \in {"scanner", "ngo"},
              amount \in Amounts :
             \A beh \in Behaviours(id) :
               ~manualReleaseFunds(World, sender, id, recipient, amount, beh).ok
        /\ \A sender \in Addrs :
             \A beh \in Behaviours(id) :
               LET r == requestRefund(World, sender, id, beh)
               IN /\ ~r.ok
                  /\ r.w = World
                  /\ sender = assets[id].donor => r.err = "Already refunded"

RefundedStaysRefunded ==
    \A id \in AssetIDs :
      assets[id].isRefunded =>
        /\ assets'[id].isRefunded
        /\ assets'[id].releasedFunds = assets[id].releasedFunds
        /\ assets'[id].allocatedFunds = assets[id].allocatedFunds

RefundIsTerminal == []RefundedNothingMoves /\ [][RefundedStaysRefunded]_vars

\* A refunded asset with the Hub milestone unreleased, on which a scan that
\* reports the Hub with enough scans for a payout goes through.
ScanOfRefundedAssetAccepted ==
    \E id \in Existing :
        /\ assets[id].isRefunded
        /\ ~assetMilestones[id][1].isReleased
        /\ assets[id].scansCount + 1 >= minScansForFirstPayout
        /\ \E sender \in roles["SCANNER_ROLE"], geo \in GeoTags :
             scanAsset(World, sender, id, geo, Hub, 1, AcceptBeh).ok

(* C5: a scan that goes through reporting a stage earlier than the asset's *)
(* current stage leaves the asset flagged; while an asset is flagged every *)
(* scan of it fails; the flag is lifted only by an auditor's unflagAsset,  *)
(* and an asset that is not flagged can be scanned.                        *)
RegressionFlagsFlagBlocks ==
    \A id \in Existing :
      /\ \A sender \in roles["SCANNER_ROLE"], in \in ScanArgs :
           \A beh \in Behaviours(id) :
             LET r == scanAsset(World, sender, id, in.geo, in.stage,
                                in.photo, beh)
             IN /\ (r.ok /\ in.stage < assets[id].currentStage)
                      => r.w.assets[id].isFlagged
                /\ assets[id].isFlagged
                      => (~r.ok /\ r.err = "Asset is flagged" /\ r.w = World)
      /\ (~assets[id].isFlagged /\ roles["SCANNER_ROLE"] # {}) =>
           \E sender \in roles["SCANNER_ROLE"], in \in ScanArgs :
             scanAsset(World, sender, id, in.geo, in.stage, in.photo,
                       AcceptBeh).ok

OnlyUnflagAssetLiftsFlag ==
    \A id \in AssetIDs :
      (assets[id].isFlagged /\ ~assets'[id].isFlagged) =>
        \E sender \in roles["AUDITOR_ROLE"] :
          /\ unflagAsset(World, sender, id).ok
          /\ World' = unflagAsset(World, sender, id).w

RegressionBlocksUntilUnflag ==
    []RegressionFlagsFlagBlocks /\ [][OnlyUnflagAssetLiftsFlag]_vars

\* A flagged asset whose last logged scan reported, from another place and
\* with a photo, a stage earlier than the scan before it.
FlaggedByRegression ==
    \E id \in Existing :
        /\ assets[id].isFlagged
        /\ Len(assetHistory[id]) >= 2
        /\ LastScan(id).stage < ScanBeforeLast(id).stage
        /\ LastScan(id).geoTag # ScanBeforeLast(id).geoTag
        /\ LastScan(id).photoHash # 0
        /\ LastScan(id).anomalyFlagged

(* C6: the anomaly flag of the entry a scan appends is true exactly when,  *)
(* against the asset before the scan, the reported stage is earlier than   *)
(* the current one, or the geo tag is the current one while the stage      *)
(* differs, or the stage is Hub or Beneficiary and the photo hash is zero; *)
(* a true flag leaves isFlagged true and a false one leaves it as it was.  *)
AnomalyFlagExact ==
    \A id \in Existing :
      \A sender \in roles["SCANNER_ROLE"], in \in ScanArgs :
        \A beh \in Behaviours(id) :
          LET r == scanAsset(World, sender, id, in.geo, in.stage, in.photo, beh)
              anomaly ==
                  \/ in.stage < assets[id].currentStage
                  \/ /\ in.geo = assets[id].currentGeoTag
                     /\ in.stage # assets[id].currentStage
                  \/ /\ in.stage \in {Hub, Beneficiary}
                     /\ in.photo = 0
              entry == r.w.assetHistory[id][Len(assetHistory[id]) + 1]
          IN (r.ok /\ RanAlone(r)) =>
               /\ entry.anomalyFlagged = anomaly
               /\ anomaly => r.w.assets[id].isFlagged
               /\ ~anomaly => r.w.assets[id].isFlagged = assets[id].isFlagged

\* A flagged asset whose last logged scan reported the Beneficiary stage
\* without a photo, from another place and not going back.
FlaggedForMissingPhoto ==
    \E id \in Existing :
        /\ assets[id].isFlagged
        /\ Len(assetHistory[id]) >= 2
        /\ LastScan(id).stage = Beneficiary
        /\ LastScan(id).photoHash = 0
        /\ LastScan(id).stage > ScanBeforeLast(id).stage
        /\ LastScan(id).geoTag # ScanBeforeLast(id).geoTag
        /\ LastScan(id).anomalyFlagged

(* C7: a scan whose milestone payout to the NGO fails reverts with         *)
(* "Transfer failed" and leaves all of storage as it was.                  *)
FailedPayoutAbortsScan ==
    \A id \in Existing :
      \A sender \in roles["SCANNER_ROLE"], in \in ScanArgs :
        LET paid == scanAsset(World, sender, id, in.geo, in.stage, in.photo,
                              AcceptBeh)
            refused == scanAsset(World, sender, id, in.geo, in.stage, in.photo,
                                 RejectBeh)
        IN /\ (paid.ok /\ paid.transfers # <<>>) =>
                (~refused.ok /\ refused.err = "Transfer failed"
                   /\ refused.w = World)
           /\ (paid.ok /\ paid.transfers = <<>>) => refused = paid
           /\ ~paid.ok => paid.w = World

\* A scan that pays the NGO when the NGO accepts and is refused otherwise.
PayoutCanBeRefused ==
    \E id \in Existing :
      \E sender \in roles["SCANNER_ROLE"], in \in ScanArgs :
        /\ scanAsset(World, sender, id, in.geo, in.stage, in.photo,
                     AcceptBeh).transfers # <<>>
        /\ scanAsset(World, sender, id, in.geo, in.stage, in.photo,
                     RejectBeh).err = "Transfer failed"

RefundOnlyWhenEligible ==
    \A id \in IDs, sender \in Addrs :
      \A beh \in Behaviours(id) :
        LET r == requestRefund(World, sender, id, beh)
            allowed ==
                /\ sender = assets[id].donor
                /\ ~assets[id].isRefunded
                /\ assets[id].allocatedFunds - assets[id].releasedFunds > 0
                /\ \/ assets[id].isFlagged
                   \/ /\ now > assets[id].donorTimestamp + 30 * 24 * 60 * 60
                      /\ assets[id].currentStage < Beneficiary
        IN /\ r.ok => allowed
           /\ ~allowed => ~r.ok
           /\ ~r.ok => r.w = World

\* The lock period of an unflagged asset with funds left and short of the
\* Beneficiary runs out at this very second, and its donor is turned away.
RefusedAtExpiry ==
    \E id \in Existing :
        /\ now = assets[id].donorTimestamp + REFUND_LOCK_PERIOD
        /\ ~assets[id].isFlagged
        /\ ~assets[id].isRefunded
        /\ assets[id].currentStage < Beneficiary
        /\ assets[id].allocatedFunds > assets[id].releasedFunds
        /\ requestRefund(World, assets[id].donor, id, AcceptBeh).err
              = "Not eligible for refund"

(* C10: a refund that goes through sends the donor exactly                 *)
(* allocatedFunds - releasedFunds as they were before the call, sets       *)
(* isRefunded, sets allocatedFunds to releasedFunds, and leaves            *)
(* releasedFunds, the stage, isFlagged, scansCount, the milestones and     *)
(* the scan history as they were.                                          *)
RefundExact ==
    \A id \in Existing :
      \A beh \in Behaviours(id) :
        LET r == requestRefund(World, assets[id].donor, id, beh)
        IN (r.ok /\ RanAlone(r)) =>
             /\ r.transfers =
                  <<[to |-> assets[id].donor,
                     amount |-> assets[id].allocatedFunds
                                  - assets[id].releasedFunds]>>
             /\ r.w.balance = balance - (assets[id].allocatedFunds
                                           - assets[id].releasedFunds)
             /\ r.w.assets[id] =
                  [assets[id] EXCEPT !.isRefunded = TRUE,
                                     !.allocatedFunds = assets[id].releasedFunds]
             /\ r.w.assetMilestones = assetMilestones
             /\ r.w.assetHistory = assetHistory

\* A refunded asset, flagged, whose Hub payout had been made: its books are
\* closed at what was released.
RefundedAfterHubPayout ==
    \E id \in Existing :
        /\ assets[id].isRefunded
        /\ assets[id].isFlagged
        /\ assetMilestones[id][1].isReleased
        /\ ~assetMilestones[id][2].isReleased
        /\ assets[id].releasedFunds > 0
        /\ assets[id].allocatedFunds = assets[id].releasedFunds

(* C11: two initAsset calls naming the same unused identifier, serialised  *)
(* in either order and sent by the same or by different donors: the first  *)
(* goes through, the second fails with "Asset already exists", and the     *)
(* asset, its donor, totalAssetsTracked, totalFundsAllocated and the       *)
(* balance are those the first call left.                                  *)
DuplicateInitRejected ==
    \A id \in AssetIDs \ Existing :
      \A d1 \in {"donor", "ngo"}, d2 \in {"donor", "ngo"} :
        \A v1 \in Values \ {0}, v2 \in Values \ {0} :
          \A n1 \in roles["NGO_ROLE"], n2 \in roles["NGO_ROLE"] :
            LET r1 == initAsset(World, d1, v1, id, n1, "geoA")
                r2 == initAsset(r1.w, d2, v2, id, n2, "geoB")
            IN /\ r1.ok
               /\ ~r2.ok
               /\ r2.err = "Asset already exists"
               /\ r2.w = r1.w
               /\ r1.w.assets[id].donor = d1
               /\ r1.w.assets[id].allocatedFunds = v1
               /\ r1.w.assets[id].assignedNGO = n1
               /\ r1.w.totalAssetsTracked = totalAssetsTracked + 1
               /\ r1.w.totalFundsAllocated = totalFundsAllocated + v1
               /\ r1.w.balance = balance + v1

\* An NGO is registered and an identifier unused, with another asset funded
\* already: two donors can race for the identifier.
RaceForIdentifierPossible ==
    /\ roles["NGO_ROLE"] # {}
    /\ Existing # {}
    /\ AssetIDs \ Existing # {}
    /\ \E id \in AssetIDs \ Existing :
         /\ initAsset(World, "donor", 5, id, "ngo", "geoA").ok
         /\ initAsset(initAsset(World, "donor", 5, id, "ngo", "geoA").w,
                      "ngo", 3, id, "ngo", "geoB").err = "Asset already exists"

(* C12: initAsset fails and changes nothing when the identifier is in use, *)
(* msg.value is zero or the assigned NGO does not hold NGO_ROLE.  When it  *)
(* goes through, the new asset has allocatedFunds = msg.value,             *)
(* releasedFunds = 0, stage Warehouse, scansCount = 1, isFlagged and       *)
(* isRefunded false, donor = the caller, exactly the two unreleased        *)
(* milestones (Hub, 40) and (Beneficiary, 60) in that order and a history  *)
(* of one entry with stage Warehouse and anomaly flag false, and           *)
(* totalAssetsTracked grows by 1 and totalFundsAllocated by msg.value.     *)
InitAssetExact ==
    \A id \in IDs, sender \in {"donor", "ngo"}, value \in Values :
      \A ngo \in Addrs \cup {ZeroAddr}, geo \in GeoTags :
        LET r == initAsset(World, sender, value, id, ngo, geo)
        IN /\ (assets[id].donor # ZeroAddr \/ value = 0
                 \/ ngo \notin roles["NGO_ROLE"]) => ~r.ok
           /\ ~r.ok => r.w = World
           /\ r.ok =>
                /\ r.w.assets[id].allocatedFunds = value
                /\ r.w.assets[id].releasedFunds = 0
                /\ r.w.assets[id].currentStage = Warehouse
                /\ r.w.assets[id].scansCount = 1
                /\ ~r.w.assets[id].isFlagged
                /\ ~r.w.assets[id].isRefunded
                /\ r.w.assets[id].donor = sender
                /\ r.w.assets[id].assignedNGO = ngo
                /\ r.w.assetMilestones[id] =
                     << [stage |-> 2, releasePercentage |-> 40,
                         isReleased |-> FALSE],
                        [stage |-> 4, releasePercentage |-> 60,
                         isReleased |-> FALSE] >>
                /\ Len(r.w.assetHistory[id]) = 1
                /\ r.w.assetHistory[id][1].stage = Warehouse
                /\ ~r.w.assetHistory[id][1].anomalyFlagged
                /\ r.w.totalAssetsTracked = totalAssetsTracked + 1
                /\ r.w.totalFundsAllocated = totalFundsAllocated + value
                /\ r.w.balance = balance + value

\* An asset as initAsset leaves it: funded with 3, nothing released, one
\* entry in its history.
FreshlyCreated ==
    \E id \in Existing :
        /\ assets[id].allocatedFunds = 3
        /\ assets[id].releasedFunds = 0
        /\ assets[id].scansCount = 1
        /\ Len(assetHistory[id]) = 1
        /\ totalAssetsTracked = 1
        /\ totalFundsAllocated = 3
        /\ balance = 3

(* C13: a caller lacking the required role fails and changes nothing:      *)
(* scanAsset requires SCANNER_ROLE; flagAsset, unflagAsset and             *)
(* manualReleaseFunds require AUDITOR_ROLE; updateMinScans requires        *)
(* ADMIN_ROLE.  Holding another role (ADMIN_ROLE without SCANNER_ROLE)     *)
(* gives no access.                                                        *)
RoleGatesHold ==
    \A sender \in Addrs, id \in IDs :
      /\ sender \notin roles["SCANNER_ROLE"] =>
           \A in \in ScanArgs :
             LET r == scanAsset(World, sender, id, in.geo, in.stage, in.photo,
                                AcceptBeh)
             IN ~r.ok /\ r.w = World
      /\ sender \notin roles["AUDITOR_ROLE"] =>
           /\ LET r == flagAsset(World, sender, id) IN ~r.ok /\ r.w = World
           /\ LET r == unflagAsset(World, sender, id) IN ~r.ok /\ r.w = World
           /\ \A amount \in Amounts :
                LET r == manualReleaseFunds(World, sender, id, "ngo", amount,
                                            AcceptBeh)
                IN ~r.ok /\ r.w = World
      /\ sender \notin roles["ADMIN_ROLE"] =>
           \A newMin \in 0..3 :
             LET r == updateMinScans(World, sender, newMin)
             IN ~r.ok /\ r.w = World

\* An unflagged asset with funds, a scanner who is not an auditor and an
\* admin who is neither: the admin's scan and manual release are turned
\* away, the scanner's scan is not.
AdminIsNoScanner ==
    \E id \in Existing :
        /\ ~assets[id].isFlagged
        /\ assets[id].allocatedFunds > 0
        /\ "admin" \in roles["ADMIN_ROLE"]
        /\ "admin" \notin roles["SCANNER_ROLE"] \cup roles["AUDITOR_ROLE"]
        /\ "scanner" \in roles["SCANNER_ROLE"] \ roles["AUDITOR_ROLE"]
        /\ scanAsset(World, "admin", id, "geoB", Transport, 1, AcceptBeh).err
              = "AccessControl"
        /\ scanAsset(World, "scanner", id, "geoB", Transport, 1, AcceptBeh).ok
        /\ manualReleaseFunds(World, "admin", id, "ngo", 1, AcceptBeh).err
              = "AccessControl"

\* The calls that write the role sets, by name.
RoleFunctions == {"grantRole", "revokeRole", "renounceRole", "addScanner", "addNGO"}

RoleCall(w, sender, fn, role, account) ==
    CASE fn = "grantRole" -> grantRole(w, sender, role, account)
      [] fn = "revokeRole" -> revokeRole(w, sender, role, account)
      [] fn = "renounceRole" -> renounceRole(w, sender, role, account)
      [] fn = "addScanner" -> addScanner(w, sender, account)
      [] fn = "addNGO" -> addNGO(w, sender, account)

\* The role that administers each of the other roles: ADMIN_ROLE for the
\* auditors, scanners and NGOs, the default admin role for ADMIN_ROLE.
AdministeredBy ==
    [role \in {"AUDITOR_ROLE", "SCANNER_ROLE", "NGO_ROLE", "ADMIN_ROLE"} |->
        IF role = "ADMIN_ROLE" THEN "DEFAULT_ADMIN_ROLE" ELSE "ADMIN_ROLE"]

\* A grant or revocation by a caller who lacks the administering role fails
\* with AccessControl's error and changes nothing.
UnauthorizedGrantFails ==
    \A role \in DOMAIN AdministeredBy, account \in Addrs :
      \A sender \in Addrs \ roles[AdministeredBy[role]] :
        /\ LET r == grantRole(World, sender, role, account)
           IN ~r.ok /\ r.err = "AccessControl" /\ r.w = World
        /\ LET r == revokeRole(World, sender, role, account)
           IN ~r.ok /\ r.err = "AccessControl" /\ r.w = World
        /\ role = "SCANNER_ROLE" => ~addScanner(World, sender, account).ok
        /\ role = "NGO_ROLE" => ~addNGO(World, sender, account).ok

\* Every step that changes a role set is the effect of one of the role calls.
RolesMoveByRoleCalls ==
    roles' # roles =>
      \E fn \in RoleFunctions, sender \in Addrs, role \in Roles,
         account \in Addrs :
        /\ RoleCall(World, sender, fn, role, account).ok
        /\ World' = RoleCall(World, sender, fn, role, account).w

(* C14 as stated: the members of AUDITOR_ROLE, SCANNER_ROLE and NGO_ROLE   *)
(* change only by a grant or revocation whose caller holds ADMIN_ROLE, and *)
(* those of ADMIN_ROLE only by one whose caller holds the default admin    *)
(* role; a grant or revocation by any other caller fails and changes no    *)
(* role set.                                                               *)
RolesChangeOnlyByAdministrator ==
    /\ UnauthorizedGrantFails
    /\ \A fn \in RoleFunctions, sender \in Addrs, account \in Addrs :
         \A role \in DOMAIN AdministeredBy :
           LET r == RoleCall(World, sender, fn, role, account)
           IN \A changed \in DOMAIN AdministeredBy :
                (r.ok /\ r.w.roles[changed] # roles[changed]) =>
                   sender \in roles[AdministeredBy[changed]]

(* C14, amended: as above, except that an account may also give up a role  *)
(* of its own through renounceRole, whatever roles it holds; and no other  *)
(* operation changes a role set.                                           *)
AdministratorOrSelfChangesRoles ==
    /\ UnauthorizedGrantFails
    /\ \A fn \in RoleFunctions, sender \in Addrs, account \in Addrs :
         \A role \in DOMAIN AdministeredBy :
           LET r == RoleCall(World, sender, fn, role, account)
           IN \A changed \in DOMAIN AdministeredBy :
                (r.ok /\ r.w.roles[changed] # roles[changed]) =>
                   \/ sender \in roles[AdministeredBy[changed]]
                   \/ /\ fn = "renounceRole"
                      /\ account = sender
                      /\ changed = role
                      /\ r.w.roles[changed] = roles[changed] \ {sender}

RolesChangeByAdministratorOrSelf ==
    []AdministratorOrSelfChangesRoles /\ [][RolesMoveByRoleCalls]_vars

\* "auditor" holds ADMIN_ROLE without the default admin role: its grant of
\* SCANNER_ROLE goes through, its grant of ADMIN_ROLE does not, and
\* "scanner", no administrator, can still give up the AUDITOR_ROLE it holds.
AdminWithoutRoot ==
    /\ "auditor" \in roles["ADMIN_ROLE"] \ roles["DEFAULT_ADMIN_ROLE"]
    /\ "scanner" \in roles["AUDITOR_ROLE"] \ roles["ADMIN_ROLE"]
    /\ grantRole(World, "auditor", "SCANNER_ROLE", "scanner").ok
    /\ grantRole(World, "auditor", "ADMIN_ROLE", "scanner").err = "AccessControl"
    /\ renounceRole(World, "scanner", "AUDITOR_ROLE", "scanner").ok

\* The sum of the amounts of a sequence of transfers.
RECURSIVE TotalSent(_)
TotalSent(transfers) ==
    IF transfers = <<>> THEN 0
    ELSE Head(transfers).amount + TotalSent(Tail(transfers))

MilestonePayouts(events) ==
    SelectSeq(events, LAMBDA e : e.name = "MilestoneReached")

\* The sum of the first k - 1 payouts of a sequence of MilestoneReached events.
RECURSIVE PaidBefore(_, _)
PaidBefore(payouts, k) ==
    IF k <= 1 THEN 0 ELSE PaidBefore(payouts, k - 1) + payouts[k - 1].amount

(* C16: every payout a scan makes for a milestone is the smaller of        *)
(* floor(allocatedFunds * percentage / 100) and allocatedFunds -           *)
(* releasedFunds, on the asset as it is when that milestone is evaluated   *)
(* (40 for Hub, 60 for Beneficiary); and the scan that brings a fresh      *)
(* asset funded with F to Hub, its scansCount reaching the default         *)
(* threshold 2, pays exactly floor(F * 40 / 100).                          *)
AutomaticPayoutIsClampedShare ==
    \A id \in Existing, sender \in roles["SCANNER_ROLE"], a \in ScanArgs :
      \A beh \in Behaviours(id) :
      LET r == scanAsset(World, sender, id, a.geo, a.stage, a.photo, beh)
          p == MilestonePayouts(r.events)
          F == assets[id].allocatedFunds
      IN (r.ok /\ RanAlone(r)) =>
           /\ \A k \in 1..Len(p) :
                LET share == (F * (IF p[k].stage = Hub THEN 40 ELSE 60)) \div 100
                    left == F - (assets[id].releasedFunds + PaidBefore(p, k))
                IN /\ p[k].stage \in {Hub, Beneficiary}
                   /\ p[k].amount = IF share < left THEN share ELSE left
           /\ TotalSent(r.transfers) = PaidBefore(p, Len(p) + 1)
           /\ r.w.assets[id].releasedFunds =
                  assets[id].releasedFunds + PaidBefore(p, Len(p) + 1)
           /\ ( /\ assets[id].scansCount = 1
                /\ assets[id].releasedFunds = 0
                /\ ~assetMilestones[id][1].isReleased
                /\ minScansForFirstPayout = DefaultMinScans
                /\ a.stage = Hub
                /\ ~r.w.assets[id].isFlagged ) =>
                  TotalSent(r.transfers) = (F * 40) \div 100

\* An asset funded with 3 whose second scan brought it to Hub and paid
\* floor(3 * 40 / 100) = 1.
HubScanPaidTwoFifths ==
    \E id \in Existing :
        /\ assets[id].allocatedFunds = 3
        /\ assets[id].scansCount = 2
        /\ assets[id].currentStage = Hub
        /\ assets[id].releasedFunds = 1
        /\ assetMilestones[id][1].isReleased
        /\ ~assetMilestones[id][2].isReleased
        /\ ngoTotalReceived[assets[id].assignedNGO] = 1

(* C17: for every existing asset allocatedFunds is never 0 in a reachable  *)
(* state, so getAssetProgress never meets a zero divisor.                  *)
AllocatedNeverZero ==
    \A id \in Existing :
        /\ assets[id].allocatedFunds # 0
        /\ getAssetProgress(World, id).ok

(* C17, amended: allocatedFunds of an existing asset is 0 exactly when the *)
(* asset was refunded with nothing released before; an asset that is not   *)
(* refunded has allocatedFunds > 0; getAssetProgress reverts on the zero   *)
(* divisor in exactly the former states and returns in all others.         *)
AllocatedZeroOnlyAfterFullRefund ==
    \A id \in Existing :
        /\ (assets[id].allocatedFunds = 0)
             <=> (assets[id].isRefunded /\ assets[id].releasedFunds = 0)
        /\ ~assets[id].isRefunded => assets[id].allocatedFunds > 0
        /\ getAssetProgress(World, id).ok <=> (assets[id].allocatedFunds # 0)
        /\ ~getAssetProgress(World, id).ok =>
               getAssetProgress(World, id).err = "SafeMath: division by zero"

\* A flagged asset refunded to its donor before anything was released.
RefundedBeforeAnyRelease ==
    \E id \in Existing :
        /\ assets[id].isRefunded
        /\ assets[id].releasedFunds = 0
        /\ assets[id].allocatedFunds = 0
        /\ ~getAssetProgress(World, id).ok

(* C18: scansCount of an asset is 1 plus the number of scanAsset calls on  *)
(* it that did not fail the precondition checks: every call that passes    *)
(* them (scanner role, asset exists, not flagged) is counted.              *)
ScanPastChecksIsCounted ==
    \A id \in Existing, sender \in Addrs, a \in ScanArgs,
       beh \in {AcceptBeh, RejectBeh} :
      scanError(World, sender, id) = "" =>
        scanAsset(World, sender, id, a.geo, a.stage, a.photo, beh)
            .w.assets[id].scansCount = assets[id].scansCount + 1

(* C18, amended: scansCount of an asset is 1 plus the number of scanAsset  *)
(* calls on it that went through.  The log holds the entry of the creation *)
(* followed by one entry per scan that went through, and scansCount is its *)
(* length; a scan that goes through adds exactly 1, and a scan that fails, *)
(* in the precondition checks or in a payout after them, adds nothing.     *)
ScansCountIsScansGoneThrough ==
    /\ \A id \in AssetIDs \ Existing :
           assets[id].scansCount = 0 /\ assetHistory[id] = <<>>
    /\ \A id \in Existing :
        /\ assets[id].scansCount = Len(assetHistory[id])
        /\ assetHistory[id][1].notes = "Asset initialized"
        /\ \A k \in 2..Len(assetHistory[id]) : assetHistory[id][k].notes = "note"
        /\ assets[id].scansCount =
               1 + Cardinality({k \in 1..Len(assetHistory[id]) :
                                   assetHistory[id][k].notes = "note"})
        /\ \A sender \in Addrs, a \in ScanArgs :
             \A beh \in Behaviours(id) :
               LET r == scanAsset(World, sender, id, a.geo, a.stage, a.photo, beh)
               IN /\ (r.ok /\ RanAlone(r)) =>
                        r.w.assets[id].scansCount = assets[id].scansCount + 1
                  /\ ~r.ok => r.w.assets[id].scansCount = assets[id].scansCount

\* An asset scanned once whose next scan, to Hub with a photo from another
\* place, passes the precondition checks and is aborted when the NGO refuses
\* the payout.
ScanPastChecksAborted ==
    \E id \in Existing, sender \in roles["SCANNER_ROLE"], geo \in GeoTags :
        /\ assets[id].scansCount = 2
        /\ scanError(World, sender, id) = ""
        /\ ~scanAsset(World, sender, id, geo, Hub, 1, RejectBeh).ok

(* C19: where getAssetProgress returns, progressPercentage is              *)
(* currentStage * 100 / 4 in integer division (one of 0, 25, 50, 75, 100)  *)
(* and fundsReleasedPercentage is releasedFunds * 100 / allocatedFunds in  *)
(* integer division, never above 100; called on an asset right after       *)
(* initAsset created it with any funding above 0 it returns (0, 0).        *)
ProgressExact ==
    /\ \A id \in Existing :
         LET g == getAssetProgress(World, id)
         IN g.ok =>
              /\ g.progressPercentage = (assets[id].currentStage * 100) \div 4
              /\ g.progressPercentage \in {0, 25, 50, 75, 100}
              /\ g.fundsReleasedPercentage =
                     (assets[id].releasedFunds * 100) \div assets[id].allocatedFunds
              /\ g.fundsReleasedPercentage <= 100
    /\ \A id \in IDs, sender \in {"donor", "ngo"}, value \in Values :
         \A ngo \in Addrs, geo \in GeoTags :
           LET r == initAsset(World, sender, value, id, ngo, geo)
           IN r.ok =>
                /\ getAssetProgress(r.w, id).ok
                /\ getAssetProgress(r.w, id).progressPercentage = 0
                /\ getAssetProgress(r.w, id).fundsReleasedPercentage = 0

\* An asset funded with 3 at the Beneficiary stage with 2 released:
\* getAssetProgress returns (100, 66).
ProgressTruncated ==
    \E id \in Existing :
        /\ assets[id].allocatedFunds = 3
        /\ assets[id].releasedFunds = 2
        /\ assets[id].currentStage = Beneficiary
        /\ getAssetProgress(World, id).ok
        /\ getAssetProgress(World, id).progressPercentage = 100
        /\ getAssetProgress(World, id).fundsReleasedPercentage = 66

(* C20: a scan that goes through, anomalous or not, adds exactly 1 to      *)
(* scansCount, sets currentGeoTag and currentStage to the reported values  *)
(* (also when the reported stage is earlier than the current one), and     *)
(* appends exactly one entry to the asset's log, leaving the earlier       *)
(* entries as they were; the entry carries the reported geo tag, stage and *)
(* photo hash, the caller, the time, and the anomaly flag computed against *)
(* the asset before the scan.                                              *)
ScanEffectsExact ==
    \A id \in Existing, sender \in roles["SCANNER_ROLE"], a \in ScanArgs :
      \A beh \in Behaviours(id) :
        LET r == scanAsset(World, sender, id, a.geo, a.stage, a.photo, beh)
            n == Len(assetHistory[id])
            anomaly ==
                \/ a.stage < assets[id].currentStage
                \/ a.geo = assets[id].currentGeoTag /\ a.stage # assets[id].currentStage
                \/ a.stage \in {Hub, Beneficiary} /\ a.photo = 0
        IN (r.ok /\ RanAlone(r)) =>
             /\ r.w.assets[id].scansCount = assets[id].scansCount + 1
             /\ r.w.assets[id].currentGeoTag = a.geo
             /\ r.w.assets[id].currentStage = a.stage
             /\ Len(r.w.assetHistory[id]) = n + 1
             /\ SubSeq(r.w.assetHistory[id], 1, n) = assetHistory[id]
             /\ r.w.assetHistory[id][n + 1].geoTag = a.geo
             /\ r.w.assetHistory[id][n + 1].stage = a.stage
             /\ r.w.assetHistory[id][n + 1].photoHash = a.photo
             /\ r.w.assetHistory[id][n + 1].anomalyFlagged = anomaly
             /\ r.w.assetHistory[id][n + 1].scanner = sender
             /\ r.w.assetHistory[id][n + 1].timestamp = now
             /\ \A other \in AssetIDs \ {id} :
                    r.w.assetHistory[other] = assetHistory[other]

\* An asset whose third scan reported a stage earlier than the one the
\* second had reported: the asset took the earlier stage and the reported
\* geo tag, and the entry is flagged.
WentBackAStage ==
    \E id \in Existing :
        /\ assets[id].scansCount = 3
        /\ Len(assetHistory[id]) = 3
        /\ LastScan(id).stage < ScanBeforeLast(id).stage
        /\ LastScan(id).anomalyFlagged
        /\ assets[id].currentStage = LastScan(id).stage
        /\ assets[id].currentGeoTag = LastScan(id).geoTag

(* C21: flagAsset and unflagAsset by an auditor change nothing but the     *)
(* isFlagged field of the named asset, to true and to false, and send no   *)
(* value.  On the asset as flagAsset leaves it every scan fails with       *)
(* "Asset is flagged" and changes nothing, while a manual release of an    *)
(* amount within the escrow and the donor's refund request go through.     *)
FlagChangesOnlyTheFlag ==
    \A id \in Existing, auditor \in roles["AUDITOR_ROLE"] :
      LET f == flagAsset(World, auditor, id)
          u == unflagAsset(World, auditor, id)
          left == assets[id].allocatedFunds - assets[id].releasedFunds
      IN /\ f.ok /\ f.transfers = <<>>
         /\ f.w = [World EXCEPT !.assets[id].isFlagged = TRUE]
         /\ u.ok /\ u.transfers = <<>>
         /\ u.w = [World EXCEPT !.assets[id].isFlagged = FALSE]
         /\ \A sender \in Addrs, a \in ScanArgs, beh \in {AcceptBeh, RejectBeh} :
              LET r == scanAsset(f.w, sender, id, a.geo, a.stage, a.photo, beh)
              IN /\ ~r.ok
                 /\ r.w = f.w
                 /\ sender \in roles["SCANNER_ROLE"] => r.err = "Asset is flagged"
         /\ \A amount \in Amounts :
              (0 < amount /\ amount <= left /\ amount <= balance) =>
                manualReleaseFunds(f.w, auditor, id, "scanner", amount,
                                   AcceptBeh).ok
         /\ (~assets[id].isRefunded /\ 0 < left /\ left <= balance) =>
                requestRefund(f.w, assets[id].donor, id, AcceptBeh).ok

\* An asset scanned without anomaly, with its Hub milestone paid, and then
\* flagged by an auditor.
FlaggedByAuditorAfterCleanScan ==
    \E id \in Existing :
        /\ assets[id].isFlagged
        /\ Len(assetHistory[id]) >= 2
        /\ ~LastScan(id).anomalyFlagged
        /\ assetMilestones[id][1].isReleased
        /\ ~assets[id].isRefunded

(* C22: currentStage does not decrease under scans that are not anomalous. *)
(* Every scan that goes through and whose log entry carries a false        *)
(* anomaly flag leaves currentStage at least what it was before the scan;  *)
(* and in every step of the ledger in which an asset's currentStage        *)
(* decreases, the asset's newest log entry is flagged as an anomaly.       *)
CleanScanKeepsStage ==
    \A id \in Existing, sender \in roles["SCANNER_ROLE"], a \in ScanArgs :
      \A beh \in Behaviours(id) :
        LET r == scanAsset(World, sender, id, a.geo, a.stage, a.photo, beh)
        IN (r.ok /\ ~r.w.assetHistory[id][Len(assetHistory[id]) + 1].anomalyFlagged)
             => r.w.assets[id].currentStage >= assets[id].currentStage

StageFallsOnlyByAnomalousScan ==
    \A id \in AssetIDs :
      assets'[id].currentStage < assets[id].currentStage =>
        /\ Len(assetHistory'[id]) > Len(assetHistory[id])
        /\ assetHistory'[id][Len(assetHistory'[id])].anomalyFlagged
        /\ assets'[id].isFlagged

StageMonotoneUnlessAnomalous ==
    []CleanScanKeepsStage /\ [][StageFallsOnlyByAnomalousScan]_vars

\* An asset whose last scan moved it forward, to Hub, without anomaly.
MovedForwardCleanly ==
    \E id \in Existing :
        /\ Len(assetHistory[id]) >= 2
        /\ ~LastScan(id).anomalyFlagged
        /\ LastScan(id).stage = Hub
        /\ ScanBeforeLast(id).stage < Hub
        /\ assets[id].currentStage = Hub
        /\ ~assets[id].isFlagged

(* C23: the log of an asset is append-only.  No step of the ledger changes *)
(* or removes an entry; the log grows only by initAsset, which writes its  *)
(* first entry, and by scans that go through, one entry each at the end;   *)
(* manual releases, refunds, flagging, unflagging and the administrative   *)
(* functions leave it as it is; and its length is the asset's scansCount   *)
(* in every reachable state.                                               *)
HistoryLengthIsScansCount ==
    /\ \A id \in AssetIDs : Len(assetHistory[id]) = assets[id].scansCount
    /\ \A id \in Existing :
         /\ \A sender \in roles["SCANNER_ROLE"], a \in ScanArgs :
              \A beh \in Behaviours(id) :
                LET r == scanAsset(World, sender, id, a.geo, a.stage, a.photo, beh)
                IN (r.ok /\ RanAlone(r)) =>
                     /\ Len(r.w.assetHistory[id]) = Len(assetHistory[id]) + 1
                     /\ SubSeq(r.w.assetHistory[id], 1, Len(assetHistory[id]))
                            = assetHistory[id]
         /\ \A sender \in roles["AUDITOR_ROLE"], amount \in Amounts :
              \A beh \in Behaviours(id) :
                LET r == manualReleaseFunds(World, sender, id, "scanner", amount, beh)
                IN (r.ok /\ RanAlone(r)) => r.w.assetHistory = assetHistory
         /\ \A beh \in Behaviours(id) :
              LET r == requestRefund(World, assets[id].donor, id, beh)
              IN (r.ok /\ RanAlone(r)) => r.w.assetHistory = assetHistory
         /\ \A sender \in roles["AUDITOR_ROLE"] :
              /\ flagAsset(World, sender, id).w.assetHistory = assetHistory
              /\ unflagAsset(World, sender, id).w.assetHistory = assetHistory
    /\ \A id \in IDs, sender \in {"donor", "ngo"}, value \in Values :
         \A ngo \in Addrs, geo \in GeoTags :
           LET r == initAsset(World, sender, value, id, ngo, geo)
           IN r.ok =>
                /\ assetHistory[id] = <<>>
                /\ Len(r.w.assetHistory[id]) = 1
                /\ \A other \in IDs \ {id} :
                       r.w.assetHistory[other] = assetHistory[other]

HistoryOnlyGrowsAtEnd ==
    \A id \in AssetIDs :
      LET n == Len(assetHistory[id])
          m == Len(assetHistory'[id])
      IN /\ m >= n
         /\ SubSeq(assetHistory'[id], 1, n) = assetHistory[id]
         /\ \A k \in (n + 1)..m :
              IF k = 1
              THEN assetHistory'[id][k].notes = "Asset initialized"
              ELSE assetHistory'[id][k].notes = "note"

HistoryAppendOnly ==
    []HistoryLengthIsScansCount /\ [][HistoryOnlyGrowsAtEnd]_vars

\* An asset scanned twice and then refunded, its three log entries kept.
ThreeEntriesKeptThroughRefund ==
    \E id \in Existing :
        /\ Len(assetHistory[id]) = 3
        /\ assets[id].scansCount = 3
        /\ assets[id].isRefunded
        /\ assetHistory[id][1].notes = "Asset initialized"

(* C24: a transfer of value to the contract that is not a call of          *)
(* initAsset, whether a plain transfer or a call to a function the         *)
(* contract does not have, is rejected, and leaves the contract's balance, *)
(* every asset and every platform total as they were.                      *)
DirectTransferRejected ==
    \A sender \in Addrs, value \in Values :
        /\ ~receive(World, sender, value).ok
        /\ receive(World, sender, value).err = "Use initAsset() to donate"
        /\ receive(World, sender, value).w.balance = balance
        /\ receive(World, sender, value).w = World
        /\ ~fallback(World, sender, value).ok
        /\ fallback(World, sender, value).err = "Function does not exist"
        /\ fallback(World, sender, value).w.balance = balance
        /\ fallback(World, sender, value).w = World

\* The contract holding an asset's 3 in escrow, with nothing released, when
\* the donor's plain transfer of 5 is turned away.
TopUpTurnedAway ==
    \E id \in Existing :
        /\ assets[id].allocatedFunds = 3
        /\ assets[id].releasedFunds = 0
        /\ balance = 3
        /\ totalFundsAllocated = 3
        /\ ~receive(World, assets[id].donor, 5).ok

(* C25: funds are released automatically only on a verified milestone: a   *)
(* scan whose computed anomaly flag is true, the scan that flags the       *)
(* asset, pays no milestone to the NGO and marks none released.            *)
AnomalousScanPaysNothing ==
    \A id \in Existing, sender \in roles["SCANNER_ROLE"], a \in ScanArgs :
      LET r == scanAsset(World, sender, id, a.geo, a.stage, a.photo, AcceptBeh)
      IN (r.ok /\ r.w.assetHistory[id][Len(assetHistory[id]) + 1].anomalyFlagged)
           => /\ r.transfers = <<>>
              /\ MilestonePayouts(r.events) = <<>>
              /\ r.w.assets[id].releasedFunds = assets[id].releasedFunds
              /\ r.w.assetMilestones[id] = assetMilestones[id]

\* How many MilestoneReached events of a call are for a given stage.
TimesPaid(events, stage) ==
    Cardinality({k \in 1..Len(events) :
                    events[k].name = "MilestoneReached" /\ events[k].stage = stage})

(* C26: when the NGO's receive hook calls back into the ledger while a     *)
(* scan is paying it a milestone (a nested scanAsset, manualReleaseFunds   *)
(* or requestRefund), the milestone being paid is marked released already: *)
(* over the outer call and the nested one together each milestone is paid  *)
(* at most once and none that was released before; afterwards              *)
(* releasedFunds <= allocatedFunds, and the value sent out in the whole    *)
(* call is at most what the asset held in escrow before it.                *)
CallbackDuringPayoutPaysOnce ==
    \A id \in Existing, sender \in roles["SCANNER_ROLE"], a \in ScanArgs :
      \A call \in ReentrantCalls(id) :
        LET r == scanAsset(World, sender, id, a.geo, a.stage, a.photo,
                           ReenterBeh(call))
        IN r.ok =>
             /\ \A i \in 1..Len(assetMilestones[id]) :
                  /\ TimesPaid(r.events, assetMilestones[id][i].stage) <= 1
                  /\ assetMilestones[id][i].isReleased =>
                       TimesPaid(r.events, assetMilestones[id][i].stage) = 0
                  /\ TimesPaid(r.events, assetMilestones[id][i].stage) = 1 =>
                       r.w.assetMilestones[id][i].isReleased
             /\ r.w.assets[id].releasedFunds <= r.w.assets[id].allocatedFunds
             /\ TotalSent(r.transfers)
                    <= assets[id].allocatedFunds - assets[id].releasedFunds
             /\ r.w.balance = balance - TotalSent(r.transfers)
             /\ r.w.balance >= 0

\* A state in which the NGO, paid the Hub milestone by its own scan, scans
\* the asset on to the Beneficiary from its receive hook: the nested scan
\* goes through and the call pays each milestone once.
NGOScansFromItsHook ==
    \E id \in Existing :
      LET r == scanAsset(World, "ngo", id, "geoB", Hub, 1,
                         ReenterBeh(ScanCall(id, "geoB", Beneficiary, 1)))
      IN /\ assets[id].allocatedFunds = 5
         /\ r.ok
         /\ Len(r.nested) >= 1
         /\ r.nested[1].ok
         /\ TimesPaid(r.events, Hub) = 1
         /\ TimesPaid(r.events, Beneficiary) = 1
         /\ r.w.assets[id].releasedFunds = 5

(* C27: no write operation is re-entered before it commits: while          *)
(* scanAsset, manualReleaseFunds or requestRefund is in the middle of its  *)
(* value transfer, a call the recipient makes into scanAsset,              *)
(* manualReleaseFunds or requestRefund is rejected.                        *)
NestedCallsRejected ==
    \A id \in Existing :
      \A call \in ReentrantCalls(id) :
        /\ \A sender \in roles["SCANNER_ROLE"], a \in ScanArgs :
             LET r == scanAsset(World, sender, id, a.geo, a.stage, a.photo,
                                ReenterBeh(call))
             IN r.ok => \A k \in 1..Len(r.nested) : ~r.nested[k].ok
        /\ \A sender \in roles["AUDITOR_ROLE"], amount \in Amounts :
             LET r == manualReleaseFunds(World, sender, id, "scanner", amount,
                                         ReenterBeh(call))
             IN r.ok => \A k \in 1..Len(r.nested) : ~r.nested[k].ok
        /\ LET r == requestRefund(World, assets[id].donor, id, ReenterBeh(call))
           IN r.ok => \A k \in 1..Len(r.nested) : ~r.nested[k].ok

\* The sum of releasedFunds over a set of assets, in storage w.
RECURSIVE ReleasedIn(_, _)
ReleasedIn(w, ids) ==
    IF ids = {} THEN 0
    ELSE LET id == CHOOSE x \in ids : TRUE
         IN w.assets[id].releasedFunds + ReleasedIn(w, ids \ {id})

\* What a recipient reading the ledger during a transfer sees agrees with
\* what the call commits, w being the storage at the moment of the transfer
\* and r the call's result.
SeenIsFinal(w, r, id) ==
    /\ w.assets[id].releasedFunds = r.w.assets[id].releasedFunds
    /\ w.assets[id].isRefunded = r.w.assets[id].isRefunded
    /\ w.ngoTotalReceived = r.w.ngoTotalReceived
    /\ w.totalFundsReleased = r.w.totalFundsReleased
    /\ w.totalFundsReleased = ReleasedIn(w, AssetIDs)

(* C28: in a scan's milestone release, in manualReleaseFunds and in        *)
(* requestRefund the transfer is the last step that affects state: at the  *)
(* moment of the transfer releasedFunds, the milestone's flag, isRefunded, *)
(* the recipient's total and totalFundsReleased have their final values,   *)
(* so a recipient reading the ledger during the transfer sees              *)
(* totalFundsReleased equal to the sum of the assets' releasedFunds.       *)
TransferIsLastWrite ==
    \A id \in Existing :
      /\ \A sender \in roles["AUDITOR_ROLE"], amount \in Amounts :
           LET r == manualReleaseFunds(World, sender, id, "scanner", amount,
                                       AcceptBeh)
           IN r.ok => SeenIsFinal(manualReleaseWrites(World, id, amount), r, id)
      /\ LET r == requestRefund(World, assets[id].donor, id, AcceptBeh)
         IN r.ok => SeenIsFinal(requestRefundWrites(World, id), r, id)
      /\ \A sender \in roles["SCANNER_ROLE"], a \in ScanArgs :
           LET r == scanAsset(World, sender, id, a.geo, a.stage, a.photo,
                              AcceptBeh)
               sw == scanWrites(World, sender, id, a.geo, a.stage, a.photo)
               last == IF Releases(sw, id, 2) /\ ~Releases(sw, id, 1) THEN 2 ELSE 1
               seen == MarkReleased(sw, id, last,
                           ReleaseAmount(sw.assets[id], sw.assetMilestones[id][last]))
           IN (r.ok /\ Len(r.transfers) = 1) =>
                /\ SeenIsFinal(seen, r, id)
                /\ seen.assetMilestones = r.w.assetMilestones

\* floor(allocated * percentage / 100), or what is left if that is less.
ClampedShare(allocated, released, percentage) ==
    IF released + (allocated * percentage) \div 100 > allocated
    THEN allocated - released
    ELSE (allocated * percentage) \div 100

(* C29: a scan marks a milestone released exactly when, at the moment the  *)
(* milestone is evaluated, the reported stage is at least the milestone's, *)
(* the milestone is unreleased, scansCount (this scan counted) is at least *)
(* the current minScansForFirstPayout and the clamped amount is above 0,   *)
(* and it then sends that amount to assignedNGO; the Hub milestone is      *)
(* evaluated before the Beneficiary one, so one scan can release both; a   *)
(* clamped amount of 0 sends nothing and leaves the milestone unreleased.  *)
(* No step of the ledger without a scan marks a milestone released.        *)
ReleaseOnlyWhenDue ==
    \A id \in Existing, sender \in roles["SCANNER_ROLE"], a \in ScanArgs :
      LET r == scanAsset(World, sender, id, a.geo, a.stage, a.photo, AcceptBeh)
          F == assets[id].allocatedFunds
          ms == assetMilestones[id]
          counted == assets[id].scansCount + 1 >= minScansForFirstPayout
          amt1 == ClampedShare(F, assets[id].releasedFunds, 40)
          pays1 == a.stage >= Hub /\ ~ms[1].isReleased /\ counted /\ amt1 > 0
          paid1 == IF pays1 THEN amt1 ELSE 0
          amt2 == ClampedShare(F, assets[id].releasedFunds + paid1, 60)
          pays2 == a.stage >= Beneficiary /\ ~ms[2].isReleased /\ counted /\ amt2 > 0
          ngo == assets[id].assignedNGO
      IN r.ok =>
           /\ ms[1].stage = Hub /\ ms[2].stage = Beneficiary
           /\ r.w.assetMilestones[id][1].isReleased = (ms[1].isReleased \/ pays1)
           /\ r.w.assetMilestones[id][2].isReleased = (ms[2].isReleased \/ pays2)
           /\ r.transfers =
                (IF pays1 THEN <<[to |-> ngo, amount |-> amt1]>> ELSE <<>>)
                \o (IF pays2 THEN <<[to |-> ngo, amount |-> amt2]>> ELSE <<>>)

MarkedReleasedOnlyByScan ==
    \A id \in AssetIDs :
      \A i \in 1..Len(assetMilestones[id]) :
        (~assetMilestones[id][i].isReleased /\ assetMilestones'[id][i].isReleased) =>
          /\ assets'[id].scansCount > assets[id].scansCount
          /\ assets'[id].currentStage >= assetMilestones[id][i].stage
          /\ assets'[id].scansCount >= minScansForFirstPayout
          /\ assets'[id].releasedFunds > assets[id].releasedFunds
          /\ ngoTotalReceived'[assets[id].assignedNGO]
                 > ngoTotalReceived[assets[id].assignedNGO]

MilestoneReleasedOnlyWhenDue ==
    []ReleaseOnlyWhenDue /\ [][MarkedReleasedOnlyByScan]_vars

\* An asset funded with 5 whose only scan took it from the warehouse to the
\* Beneficiary and released both milestones, 2 and 3.
BothReleasedByOneScan ==
    \E id \in Existing :
        /\ assets[id].allocatedFunds = 5
        /\ assets[id].scansCount = 2
        /\ LastScan(id).stage = Beneficiary
        /\ assetMilestones[id][1].isReleased
        /\ assetMilestones[id][2].isReleased
        /\ assets[id].releasedFunds = 5
        /\ ngoTotalReceived[assets[id].assignedNGO] = 5

(* C30: after any sequence of committed operations the funds in transit    *)
(* that getPlatformStats returns, totalFundsAllocated - totalFundsReleased,*)
(* equal the sum over all assets of allocatedFunds - releasedFunds: every  *)
(* operation that moves value, requestRefund included, shows in the        *)
(* platform totals.                                                        *)
InTransitIsEscrowed ==
    /\ getPlatformStats(World).ok
    /\ getPlatformStats(World).fundsInTransit = Escrowed(AssetIDs)

\* The ledger with a second asset, funded with 5 by "donor", next to the
\* one of the state: the contract then holds more than the first asset's
\* escrow.  (Where the NGO is not registered yet the call reverts and the
\* storage is the state's.)
WithSecondAsset == initAsset(World, "donor", 5, 2, "ngo", "geoA").w

\* What an asset holds in escrow in storage w.
EscrowOf(w, id) == w.assets[id].allocatedFunds - w.assets[id].releasedFunds

\* A call on asset id, from storage w to result r, sends out exactly what
\* it takes from the asset's escrow, never more than the escrow held, and
\* leaves the escrow of the other assets alone.
PaidFromOwnEscrow(w, r, id) ==
    r.ok =>
      /\ TotalSent(r.transfers) = EscrowOf(w, id) - EscrowOf(r.w, id)
      /\ TotalSent(r.transfers) <= EscrowOf(w, id)
      /\ EscrowOf(r.w, id) >= 0
      /\ r.w.balance = w.balance - TotalSent(r.transfers)
      /\ \A other \in AssetIDs \ {id} : r.w.assets[other] = w.assets[other]

(* C31: the value sent out on behalf of an asset over its whole life, by   *)
(* milestone payouts, manual releases and the refund, never exceeds what   *)
(* it was funded with, and in every committed state the funded amount is   *)
(* releasedFunds plus the refunded amount plus allocatedFunds -            *)
(* releasedFunds.  With funded the donor's contribution and the value that *)
(* left the contract funded - balance: the contract holds exactly the      *)
(* asset's escrow, an asset not refunded has allocatedFunds = funded, a    *)
(* refunded one allocatedFunds = releasedFunds, and every call on the      *)
(* asset, callbacks included and with more than the asset's escrow in the  *)
(* contract, sends exactly what it takes off the asset's escrow.           *)
PaidOutWithinFunding ==
    \A id \in Existing :
      LET funded == donorTotalContributions[assets[id].donor]
          refunded == IF assets[id].isRefunded
                      THEN funded - assets[id].allocatedFunds ELSE 0
          w2 == WithSecondAsset
      IN /\ funded - balance <= funded
         /\ funded - balance = assets[id].releasedFunds + refunded
         /\ funded = assets[id].releasedFunds + refunded + EscrowOf(World, id)
         /\ ~assets[id].isRefunded => assets[id].allocatedFunds = funded
         /\ assets[id].isRefunded => EscrowOf(World, id) = 0
         /\ refunded >= 0 /\ EscrowOf(World, id) >= 0
         /\ \A beh \in Behaviours(id) :
              /\ \A sender \in roles["SCANNER_ROLE"], a \in ScanInputs :
                   PaidFromOwnEscrow(w2,
                       scanAsset(w2, sender, id, a.geo, a.stage, a.photo, beh), id)
              /\ \A sender \in roles["AUDITOR_ROLE"], amount \in Amounts :
                   PaidFromOwnEscrow(w2,
                       manualReleaseFunds(w2, sender, id, "ngo", amount, beh), id)
              /\ PaidFromOwnEscrow(w2,
                     requestRefund(w2, assets[id].donor, id, beh), id)

\* An asset funded with 5 that paid the Hub milestone (2), released 1 by
\* hand and refunded the remaining 2 to its donor: nothing is left.
PaidReleasedAndRefunded ==
    \E id \in Existing :
        /\ donorTotalContributions[assets[id].donor] = 5
        /\ assets[id].isRefunded
        /\ assets[id].releasedFunds = 3
        /\ assets[id].allocatedFunds = 3
        /\ assetMilestones[id][1].isReleased
        /\ ~assetMilestones[id][2].isReleased
        /\ balance = 0

(* C32: in every committed state totalFundsReleased is the sum over all    *)
(* assets of releasedFunds, and totalAssetsTracked, totalFundsAllocated    *)
(* and totalFundsReleased never decrease from one committed state to the   *)
(* next.                                                                   *)
TotalReleasedIsSum ==
    /\ totalFundsReleased = ReleasedIn(World, AssetIDs)
    /\ totalAssetsTracked = Cardinality(Existing)

TotalsNeverDecrease ==
    /\ totalAssetsTracked' >= totalAssetsTracked
    /\ totalFundsAllocated' >= totalFundsAllocated
    /\ totalFundsReleased' >= totalFundsReleased

PlatformTotalsTrackReleases ==
    []TotalReleasedIsSum /\ [][TotalsNeverDecrease]_vars

\* One asset tracked, funded with 5, with 3 released: 2 paid for the Hub
\* milestone and 1 by hand.
TotalsAfterPayoutAndManualRelease ==
    \E id \in Existing :
        /\ totalAssetsTracked = 1
        /\ totalFundsAllocated = 5
        /\ totalFundsReleased = 3
        /\ assets[id].releasedFunds = 3
        /\ ngoTotalReceived[assets[id].assignedNGO] = 2
        /\ ~assets[id].isRefunded

(* C33: once an asset's escrow allocatedFunds - releasedFunds is 0 (after  *)
(* a manual release or a refund) while one of its milestones is            *)
(* unreleased, that milestone stays unreleased in every later state,       *)
(* whatever scans follow and whatever stage the asset reaches: no scan of  *)
(* such an asset marks a milestone released or sends value, even when the  *)
(* contract holds the funds of another asset, and no step of the ledger    *)
(* refills the escrow or releases the milestone.                           *)
EmptyEscrowReleasesNothing ==
    \A id \in Existing :
      EscrowOf(World, id) = 0 =>
        \A sender \in roles["SCANNER_ROLE"], a \in ScanArgs :
          \A beh \in Behaviours(id) :
            LET r == scanAsset(WithSecondAsset, sender, id, a.geo, a.stage,
                               a.photo, beh)
            IN r.ok =>
                 /\ r.w.assetMilestones[id] = assetMilestones[id]
                 /\ r.transfers = <<>>
                 /\ EscrowOf(r.w, id) = 0

EmptyEscrowStaysEmpty ==
    \A id \in AssetIDs :
      (assets[id].donor # ZeroAddr /\ EscrowOf(World, id) = 0) =>
        /\ assets'[id].allocatedFunds - assets'[id].releasedFunds = 0
        /\ \A i \in 1..Len(assetMilestones[id]) :
             ~assetMilestones[id][i].isReleased =>
                 ~assetMilestones'[id][i].isReleased

UnreleasedMilestoneStuck ==
    []EmptyEscrowReleasesNothing /\ [][EmptyEscrowStaysEmpty]_vars

\* An asset funded with 3, all of it released by hand, that has been scanned
\* to the Beneficiary often enough for a payout: neither milestone is
\* released.
StuckAtBeneficiary ==
    \E id \in Existing :
        /\ assets[id].allocatedFunds = 3
        /\ assets[id].releasedFunds = 3
        /\ ~assets[id].isRefunded
        /\ assets[id].currentStage = Beneficiary
        /\ assets[id].scansCount >= minScansForFirstPayout
        /\ assets[id].scansCount >= 2
        /\ ~assetMilestones[id][1].isReleased
        /\ ~assetMilestones[id][2].isReleased

\* The four role flags are those of account acct on the contract.
FlagsAreRolesOf(acct) ==
    /\ isAdmin = HasRole(World, "ADMIN_ROLE", acct)
    /\ isAuditor = HasRole(World, "AUDITOR_ROLE", acct)
    /\ isScanner = HasRole(World, "SCANNER_ROLE", acct)
    /\ isNGO = HasRole(World, "NGO_ROLE", acct)

(* C34: in the wallet session context, whenever no account is connected    *)
(* (account is null) the flags isAdmin, isAuditor, isScanner and isNGO are *)
(* all false, in every interleaving of connectWallet, disconnectWallet,    *)
(* accountsChanged events and the answers to checkUserRole's queries.      *)
NoAccountNoRoles ==
    sessionAccount = Null =>
        ~isAdmin /\ ~isAuditor /\ ~isScanner /\ ~isNGO

(* C35: in the wallet session context, once every checkUserRole query      *)
(* under way has completed, the flags isAdmin, isAuditor, isScanner and    *)
(* isNGO are the roles of the account now selected, not of one selected    *)
(* before, also when the account changed while a query was under way and   *)
(* the queries complete in any order.                                      *)
RolesOfSelectedAccount ==
    (QueriesInFlight = 0 /\ sessionAccount # Null) =>
        FlagsAreRolesOf(sessionAccount)

====
